---- MODULE Spec2Model ----
(***************************************************************************)
(* A model of kubetest's scheduling and result machinery:                  *)
(*   - TaskScheduler.Schedule      (strategy keys -> tasks, one per pod)    *)
(*   - SubTaskScheduler.Schedule   (sub-tasks of a pod -> groups)           *)
(*   - SubTaskGroup.Run / SubTask.Run (fan-out of one group, one command)   *)
(*   - TestJobRunner               (Run, runDistributedTest, runTests,      *)
(*                                  execTests, execTest, retest)            *)
(* Each part has its own specification; the variables of the other parts   *)
(* stay at their idle values.                                              *)
(***************************************************************************)
EXTENDS Integers, Sequences, FiniteSets, TLC

\* ------------------------------------------------------------------ bounds
MaxKeys == 4        \* longest strategy key list
MaxM == 3           \* largest MaxContainersPerPod
MaxNegM == 1        \* MaxContainersPerPod ranges down to -MaxNegM
MaxSubTasks == 3    \* most sub-tasks in one pod
MaxK == 3           \* largest MaxConcurrentNumPerPod
MaxTests == 2       \* most tests in the list of a distributed test job
MaxPodCap == 2      \* largest MaxContainersPerPod / MaxConcurrentNumPerPod of a test job

KeyNames == {"A", "B"}

\* ----------------------------------------------------------------- helpers
Min(a, b) == IF a < b THEN a ELSE b

Abs(a) == IF a < 0 THEN -a ELSE a

\* Go's integer division truncates toward zero (b # 0).
GoDiv(a, b) ==
    IF (a >= 0) = (b > 0) THEN Abs(a) \div Abs(b) ELSE -(Abs(a) \div Abs(b))

\* ceil(a / b) for a >= 0, b >= 1
CeilDiv(a, b) == (a + b - 1) \div b

\* Go's s[lo:hi] on a slice whose capacity equals its length (0-based, hi excluded).
Slice(s, lo, hi) == SubSeq(s, lo + 1, hi)

SeqsUpTo(S, n) == UNION {[1..k -> S] : k \in 0..n}

RECURSIVE Concat(_)
Concat(ss) == IF ss = <<>> THEN <<>> ELSE Head(ss) \o Concat(Tail(ss))

Range(s) == {s[i] : i \in DOMAIN s}

\* ================================================================ variables
VARIABLES
    \* --- TaskScheduler
    strategy,       \* [present, keys, maxContainersPerPod]: s.strategy (present = FALSE: nil)
    buildFailAt,    \* index of the BuildWithKey/Build call that returns an error (-1: none)
    schedPc,        \* "ready" | "done"
    schedOut,       \* what Schedule returned: [tasks, err]
    \* --- one pod's sub-tasks (SubTaskScheduler, SubTaskGroup, SubTask)
    numSubTasks,    \* number of sub-tasks of the pod
    maxConcurrentNumPerPod,
    podPc,          \* "ready" | "idle" | "waiting" | "done"
    groups,         \* the groups SubTaskScheduler.Schedule returned
    groupIdx,       \* index in groups of the group running (or run last)
    subPc,          \* sub-task -> "idle" | "spawned" | "running" | "outputDone" | "copied" | "finished" | "added"
    subResult,      \* sub-task -> [Status, Err, ArtifactErr] once Output returned
    rg,             \* results of the running group (SubTaskResultGroup.results)
    podResults,     \* results of the groups run so far, in order
    \* --- TestJobRunner
    job,            \* the TestJob: [nTests, distributed, retest, artifacts, podCap, maxConcurrent]
    runnerPc,       \* "start" | "runTest" | "list" | "pods" | "retest" | "return" | "done"
    pod,            \* pod -> state of its runTests call (pod 0 is the retest's pod)
    test,           \* test -> [pc, result]: state of its execTest call
    testCount,      \* r.testCount
    testLogs,       \* runDistributedTest's testLogs
    egErr,          \* first error the errgroup of runDistributedTest recorded
    runRet,         \* what r.run returned: [logs, err]
    runOut,         \* what Run left: [testResult, tests, err]
    \* --- TaskBuilder and the job it builds
    tmpl,           \* the step's template: [Volumes, InitContainers, Containers, FinalizerContainer]
    runMode,        \* b.runMode: "kubernetes" | "dryrun"
    buildPc,        \* "ready" | "built" | "failed" | "init" | "main" | "handler" | "done"
    buildCtx,       \* the TaskBuildContext of buildJob
    builtJob,       \* the job buildJob returned: [podSpec, preInit]
    issued,         \* container name -> the pre-commands PrepareCommand was called with
    prepared,       \* container name -> "none" | "ok" | "failed": its mount callback's outcome
    started,        \* names of the containers whose user command was started
    \* --- TaskScheduler with a dynamic key source
    keySource,      \* the StrategyDynamicKeySource and what its key step does
    keyMaxContainers,  \* s.strategy.Scheduler.MaxContainersPerPod
    keysPc,         \* "ready" | "done"
    keysOut,        \* what Schedule returned: [tasks, err, keys, extracted]
    \* --- addContainersByStrategyKey
    podContainers,  \* podSpec.Containers of the template
    expanded,       \* podSpec.Containers after addContainersByStrategyKey
    expandMain,     \* mainContainer: the main container of the template
    expandKey,      \* strategyKey: the StrategyKey (present = FALSE: nil)
    expandPc,       \* "ready" | "done"
    \* --- preInitCallback and the backends that run it
    stTmpl,         \* the step's template, as tmpl
    stMode,         \* b.runMode: "kubernetes" | "local" | "dryrun"
    stRegistered,   \* names the ResourceManager knows (repositories, tokens, artifacts)
    stPc,           \* "ready" | "failed" | "built" | "preinit" | "containers" | "done"
    stTask,         \* what Build returned: [task, err, preInit, copyPaths]
    copyIdx,        \* index in copyPaths of the copy the callback is at
    cbPc,           \* "idle" | "loop" | "select" | "returned": the callback's position
    cbErr,          \* what the callback returned
    copyPc,         \* copy index -> "none" | "copying" | "sending" | "done": its goroutine
    copyErr,        \* copy index -> what CopyTo returned
    stStarted,      \* names of the containers whose command was run
    stResults,      \* main container name -> the SubTaskResult of its sub-task
    stRunErr,       \* what the job's run returned
    \* --- the copyArtifact closure of BuildWithKey
    backContainers, \* tmpl.Spec.Containers
    backArtifacts,  \* tmpl.Spec.Artifacts
    backMain,       \* mainContainer
    backKey,        \* strategyKey
    backAgent,      \* mainContainer.Agent != nil
    backMode,       \* b.runMode
    backResults,    \* container name of a finished sub-task -> [err, copies] of copyArtifact
    \* --- MaskedMessage
    mmMsg,          \* m.msg, a sequence of characters
    mmMasks,        \* m.masks, the registered token values
    mmPc,           \* "open" | "read"
    mmOut,          \* what String returned
    \* --- OnFinishSubTask of Schedule
    finBranch,      \* "single": len(keys) <= maxContainers, one pod | "multi": several pods
    finTotal,       \* number of sub-tasks of the schedule
    finishedKeyNum, \* the counter of Schedule
    onFinishMu,     \* the sub-task that holds onFinishMu (0: unlocked)
    finPc,          \* sub-task -> "running" | "deferred" | "locked" | "loaded" | "stored" | "logged" | "finished"
    finLocal,       \* sub-task -> the value it loaded for finishedKeyNum++
    finCalls,       \* sub-task -> the number of times its OnFinish was called
    finLogged,      \* sub-task -> the value of finishedKeyNum it logged
    \* --- repeated builds of one template
    rbTmpl,         \* the step's template as it is in memory
    rbOrig,         \* the template as the user wrote it
    rbBuilds        \* the builds made so far: [key, ctx, podSpec]

schedVars == <<strategy, buildFailAt, schedPc, schedOut>>
podVars == <<numSubTasks, maxConcurrentNumPerPod, podPc, groups, groupIdx,
             subPc, subResult, rg, podResults>>
runnerVars == <<job, runnerPc, pod, test, testCount, testLogs, egErr, runRet, runOut>>
buildVars == <<tmpl, runMode, buildPc, buildCtx, builtJob, issued, prepared, started>>
keyVars == <<keySource, keyMaxContainers, keysPc, keysOut>>
expandVars == <<podContainers, expanded, expandMain, expandKey, expandPc>>
stageVars == <<stTmpl, stMode, stRegistered, stPc, stTask, copyIdx, cbPc, cbErr, copyPc, copyErr,
               stStarted, stResults, stRunErr>>
backVars == <<backContainers, backArtifacts, backMain, backKey, backAgent, backMode, backResults>>
maskVars == <<mmMsg, mmMasks, mmPc, mmOut>>
finVars == <<finBranch, finTotal, finishedKeyNum, onFinishMu, finPc, finLocal, finCalls, finLogged>>
rebuildVars == <<rbTmpl, rbOrig, rbBuilds>>
lateVars == <<stageVars, backVars, maskVars, finVars, rebuildVars>>
moreVars == <<buildVars, keyVars, expandVars, lateVars>>
vars == <<schedVars, podVars, runnerVars, moreVars>>

\* =========================================================== TaskScheduler
NoStrategy == [present |-> FALSE, keys |-> <<>>, maxContainersPerPod |-> 0]

\* Schedule's loop with the offset never advanced (the `sum += maxContainers` forgotten).
RECURSIVE ScheduleLoopNoAdvance(_, _, _, _, _, _, _)
ScheduleLoopNoAdvance(ks, maxContainers, concurrent, i, sum, tasks, failAt) ==
    IF i > concurrent THEN [tasks |-> tasks, err |-> "nil"]
    ELSE IF i = failAt THEN [tasks |-> <<>>, err |-> "build"]
    ELSE LET taskKeys == IF i = concurrent
                         THEN Slice(ks, sum, Len(ks))
                         ELSE Slice(ks, sum, sum + maxContainers)
         IN  ScheduleLoopNoAdvance(ks, maxContainers, concurrent, i + 1, sum,
                                   Append(tasks, [ConcurrentIdx |-> i, Keys |-> taskKeys]),
                                   failAt)

\* The loop of Schedule, lines 79-104: tasks i..concurrent, `sum` the offset of task i.
\* A build that fails makes Schedule return (nil, err).
RECURSIVE ScheduleLoop(_, _, _, _, _, _, _)
ScheduleLoop(ks, maxContainers, concurrent, i, sum, tasks, failAt) ==
    IF i > concurrent THEN [tasks |-> tasks, err |-> "nil"]
    ELSE IF i = failAt THEN [tasks |-> <<>>, err |-> "build"]
    ELSE LET taskKeys == IF i = concurrent
                         THEN Slice(ks, sum, Len(ks))
                         ELSE Slice(ks, sum, sum + maxContainers)
         IN  ScheduleLoop(ks, maxContainers, concurrent, i + 1, sum + maxContainers,
                          Append(tasks, [ConcurrentIdx |-> i, Keys |-> taskKeys]),
                          failAt)

\* getScheduleKeys for a static source: an empty static list is an invalid source.
getScheduleKeys(s) ==
    IF Len(s.keys) > 0 THEN [keys |-> s.keys, err |-> "nil"]
    ELSE [keys |-> <<>>, err |-> "invalidSource"]

\* Schedule, lines 48-105, once the keys are known: one task for all the keys or the loop.
ScheduleKeys(ks, maxContainers, failAt) ==
    IF Len(ks) <= maxContainers
    THEN IF failAt = 0 THEN [tasks |-> <<>>, err |-> "build"]
         ELSE [tasks |-> <<[ConcurrentIdx |-> 0, Keys |-> ks]>>, err |-> "nil"]
    ELSE IF maxContainers = 0 THEN [tasks |-> <<>>, err |-> "panic"]
    ELSE ScheduleLoop(ks, maxContainers, GoDiv(Len(ks), maxContainers),
                      0, 0, <<>>, failAt)

\* TaskScheduler.Schedule: what it returns for strategy s when build call failAt fails.
TaskSchedule(s, failAt) ==
    IF ~s.present
    THEN IF failAt = 0 THEN [tasks |-> <<>>, err |-> "build"]
         ELSE [tasks |-> <<[ConcurrentIdx |-> 0, Keys |-> <<>>]>>, err |-> "nil"]
    ELSE LET got == getScheduleKeys(s)
         IN  IF got.err # "nil" THEN [tasks |-> <<>>, err |-> got.err]
             ELSE ScheduleKeys(got.keys, s.maxContainersPerPod, failAt)

Strategies ==
    {NoStrategy} \cup
    [present : {TRUE}, keys : SeqsUpTo(KeyNames, MaxKeys),
     maxContainersPerPod : (-MaxNegM)..MaxM]

SchedIdle ==
    /\ strategy = NoStrategy
    /\ buildFailAt = -1
    /\ schedPc = "done"
    /\ schedOut = [tasks |-> <<>>, err |-> "nil"]

SchedInit ==
    /\ strategy \in Strategies
    /\ buildFailAt \in -1..1
    /\ schedPc = "ready"
    /\ schedOut = [tasks |-> <<>>, err |-> "nil"]

Schedule ==
    /\ schedPc = "ready"
    /\ schedOut' = TaskSchedule(strategy, buildFailAt)
    /\ schedPc' = "done"
    /\ UNCHANGED <<strategy, buildFailAt, podVars, runnerVars, moreVars>>

PodIdle ==
    /\ numSubTasks = 0
    /\ maxConcurrentNumPerPod = 0
    /\ podPc = "done"
    /\ groups = <<>>
    /\ groupIdx = 0
    /\ subPc = <<>>
    /\ subResult = <<>>
    /\ rg = <<>>
    /\ podResults = <<>>


\* ======================================================== SubTaskScheduler
\* getConcurrentNum with the cap ignored: every sub-task may run at once.
getConcurrentNumNoCap(maxConcurrentNum, taskNum) == taskNum

\* SubTaskScheduler.getConcurrentNum
getConcurrentNum(maxConcurrentNum, taskNum) ==
    IF maxConcurrentNum <= 0 THEN taskNum
    ELSE IF maxConcurrentNum > taskNum THEN taskNum
    ELSE maxConcurrentNum

\* The loop of SubTaskScheduler.Schedule: for i := 0; i < taskNum; i += concurrent
RECURSIVE SubScheduleLoop(_, _, _, _)
SubScheduleLoop(tasks, concurrent, i, gs) ==
    IF i >= Len(tasks) THEN gs
    ELSE LET end == IF i + concurrent > Len(tasks) THEN Len(tasks) ELSE i + concurrent
         IN  SubScheduleLoop(tasks, concurrent, i + concurrent,
                             Append(gs, Slice(tasks, i, end)))

\* SubTaskScheduler.Schedule
SubTaskSchedule(maxConcurrentNum, tasks) ==
    LET concurrentNum == getConcurrentNum(maxConcurrentNum, Len(tasks))
    IN  IF concurrentNum > 0 THEN SubScheduleLoop(tasks, concurrentNum, 0, <<>>)
        ELSE <<tasks>>

\* ================================================= SubTask and SubTaskGroup
TaskResultSuccess == "success"
TaskResultFailure == "failure"

NoResult == [Status |-> "none", Err |-> FALSE, ArtifactErr |-> FALSE]

\* SubTask.Run, lines 40-58: the result built from what Output returned.
outputResult(err) ==
    [Status |-> IF err THEN TaskResultFailure ELSE TaskResultSuccess,
     Err |-> err, ArtifactErr |-> FALSE]

\* The copy-back step recording the error without touching Status.
copyArtifactResultKeepStatus(result, aerr) ==
    IF aerr THEN [result EXCEPT !.ArtifactErr = TRUE] ELSE result

\* SubTask.Run, lines 60-64: the result after copyArtifact returned.
copyArtifactResult(result, aerr) ==
    IF aerr THEN [result EXCEPT !.Status = TaskResultFailure, !.ArtifactErr = TRUE]
    ELSE result

SubTasks == 1..numSubTasks

\* The sub-tasks of the pod, in container order.
subTaskList == [i \in 1..numSubTasks |-> i]

\* The sub-tasks of the group that is running (or ran last).
CurrentGroup == IF groupIdx = 0 THEN {} ELSE Range(groups[groupIdx])

InRun(t) == subPc[t] \in {"running", "outputDone", "copied"}

PodInit ==
    /\ numSubTasks \in 0..MaxSubTasks
    /\ maxConcurrentNumPerPod \in -1..MaxK
    /\ podPc = "ready"
    /\ groups = <<>>
    /\ groupIdx = 0
    /\ subPc = [t \in SubTasks |-> "idle"]
    /\ subResult = [t \in SubTasks |-> NoResult]
    /\ rg = <<>>
    /\ podResults = <<>>

\* The pod's task groups its sub-tasks with its SubTaskScheduler.
PodSchedule ==
    /\ podPc = "ready"
    /\ groups' = SubTaskSchedule(maxConcurrentNumPerPod, subTaskList)
    /\ podPc' = "idle"
    /\ UNCHANGED <<numSubTasks, maxConcurrentNumPerPod, groupIdx, subPc, subResult,
                   rg, podResults, schedVars, runnerVars, moreVars>>

\* SubTaskGroup.Run, lines 79-93, on the next group: one goroutine per sub-task.
GroupRun ==
    /\ podPc = "idle"
    /\ groupIdx < Len(groups)
    /\ groupIdx' = groupIdx + 1
    /\ subPc' = [t \in SubTasks |->
                    IF t \in Range(groups[groupIdx + 1]) THEN "spawned" ELSE subPc[t]]
    /\ rg' = <<>>
    /\ podPc' = "waiting"
    /\ UNCHANGED <<numSubTasks, maxConcurrentNumPerPod, groups, subResult, podResults,
                   schedVars, runnerVars, moreVars>>

\* The goroutine of sub-task t is scheduled and enters SubTask.Run (Output is called).
SubTaskStart(t) ==
    /\ subPc[t] = "spawned"
    /\ subPc' = [subPc EXCEPT ![t] = "running"]
    /\ UNCHANGED <<numSubTasks, maxConcurrentNumPerPod, podPc, groups, groupIdx,
                   subResult, rg, podResults, schedVars, runnerVars, moreVars>>

\* exec.Output returns, with an error or without.
SubTaskOutput(t) ==
    /\ subPc[t] = "running"
    /\ \E err \in BOOLEAN : subResult' = [subResult EXCEPT ![t] = outputResult(err)]
    /\ subPc' = [subPc EXCEPT ![t] = "outputDone"]
    /\ UNCHANGED <<numSubTasks, maxConcurrentNumPerPod, podPc, groups, groupIdx,
                   rg, podResults, schedVars, runnerVars, moreVars>>

\* copyArtifact returns, with an error or without.
SubTaskCopyArtifact(t) ==
    /\ subPc[t] = "outputDone"
    /\ \E aerr \in BOOLEAN :
          subResult' = [subResult EXCEPT ![t] = copyArtifactResult(subResult[t], aerr)]
    /\ subPc' = [subPc EXCEPT ![t] = "copied"]
    /\ UNCHANGED <<numSubTasks, maxConcurrentNumPerPod, podPc, groups, groupIdx,
                   rg, podResults, schedVars, runnerVars, moreVars>>

\* Run with the copy-back skipped when the command failed.
SubTaskFinishSkipCopy(t) ==
    /\ \/ subPc[t] = "copied"
       \/ subPc[t] = "outputDone" /\ subResult[t].Err
    /\ subPc' = [subPc EXCEPT ![t] = "finished"]
    /\ UNCHANGED <<numSubTasks, maxConcurrentNumPerPod, podPc, groups, groupIdx,
                   subResult, rg, podResults, schedVars, runnerVars, moreVars>>

\* Run returns its result; the deferred function (Stop, LogGroup, OnFinish) has run.
SubTaskFinish(t) ==
    /\ subPc[t] = "copied"
    /\ subPc' = [subPc EXCEPT ![t] = "finished"]
    /\ UNCHANGED <<numSubTasks, maxConcurrentNumPerPod, podPc, groups, groupIdx,
                   subResult, rg, podResults, schedVars, runnerVars, moreVars>>

\* The goroutine reports: Run's error is always nil, so rg.add(result) under the mutex.
GroupAdd(t) ==
    /\ subPc[t] = "finished"
    /\ rg' = Append(rg, [Name |-> t, Status |-> subResult[t].Status,
                         Err |-> subResult[t].Err,
                         ArtifactErr |-> subResult[t].ArtifactErr])
    /\ subPc' = [subPc EXCEPT ![t] = "added"]
    /\ UNCHANGED <<numSubTasks, maxConcurrentNumPerPod, podPc, groups, groupIdx,
                   subResult, podResults, schedVars, runnerVars, moreVars>>

\* Wait returning as soon as one goroutine has reported.
GroupWaitFirst ==
    /\ podPc = "waiting"
    /\ \/ CurrentGroup = {}
       \/ \E t \in CurrentGroup : subPc[t] = "added"
    /\ podResults' = Append(podResults, [results |-> rg, err |-> "nil"])
    /\ podPc' = "idle"
    /\ UNCHANGED <<numSubTasks, maxConcurrentNumPerPod, groups, groupIdx, subPc,
                   subResult, rg, schedVars, runnerVars, moreVars>>

\* SubTaskGroup.Run, lines 94-97: Wait returns once every goroutine has returned;
\* no goroutine returns an error, so the group returns (&rg, nil).
GroupWait ==
    /\ podPc = "waiting"
    /\ \A t \in CurrentGroup : subPc[t] = "added"
    /\ podResults' = Append(podResults, [results |-> rg, err |-> "nil"])
    /\ podPc' = "idle"
    /\ UNCHANGED <<numSubTasks, maxConcurrentNumPerPod, groups, groupIdx, subPc,
                   subResult, rg, schedVars, runnerVars, moreVars>>

\* Every group has run: the pod's task is over.
PodFinish ==
    /\ podPc = "idle"
    /\ groupIdx = Len(groups)
    /\ podPc' = "done"
    /\ UNCHANGED <<numSubTasks, maxConcurrentNumPerPod, groups, groupIdx, subPc,
                   subResult, rg, podResults, schedVars, runnerVars, moreVars>>


\* ============================================================ TestJobRunner
\* Errors by what xerrors.Is finds in their chain: "nil", "plain" (no sentinel),
\* "failed" (ErrFailedTestJob), "fatal" (ErrFatal).
ErrNil == "nil"
ErrPlain == "plain"
ErrFailedTestJob == "failed"
ErrFatal == "fatal"

TestResultSuccess == "success"
TestResultFailure == "failure"
TestResultError == "error"

Tests == 1..job.nTests
Pods == 0..MaxTests
RetestPod == 0

\* s cut into consecutive pieces of k elements (the last one may be shorter); k >= 1.
RECURSIVE Chunks(_, _)
Chunks(s, k) ==
    IF s = <<>> THEN <<>>
    ELSE IF Len(s) <= k THEN <<s>>
    ELSE <<SubSeq(s, 1, k)>> \o Chunks(SubSeq(s, k + 1, Len(s)), k)

\* testjob.plan: the tests of each pod, MaxContainersPerPod tests per pod.
plan(list, cap) == Chunks(list, cap)

\* testjob.schedule: the executors of a pod in groups of MaxConcurrentNumPerPod
\* (one group when the cap is not positive).
schedule(executors, maxConcurrent) ==
    IF executors = <<>> THEN <<>>
    ELSE IF maxConcurrent <= 0 THEN <<executors>>
    ELSE Chunks(executors, maxConcurrent)

IdlePod ==
    [pc |-> "unused", tests |-> <<>>, groups |-> <<>>, groupIdx |-> 0,
     gLogs |-> <<>>, gErr |-> "nil", groupRets |-> <<>>,
     logs |-> <<>>, errs |-> 0, handler |-> FALSE,
     ret |-> [logs |-> <<>>, err |-> ErrNil]]

IdleTest == [pc |-> "idle", result |-> "none"]

NoRet == [logs |-> <<>>, err |-> ErrNil]

NoOut == [testResult |-> "none", tests |-> <<>>, err |-> ErrNil]

\* The tests of the group pod p is running (or ran last).
PodGroup(p) ==
    IF pod[p].groupIdx = 0 THEN {} ELSE Range(pod[p].groups[pod[p].groupIdx])

\* The pod whose running group holds test t.
PodOf(t) == CHOOSE p \in Pods : pod[p].pc = "waiting" /\ t \in PodGroup(p)

\* The pods of the first pass.
PlanPods == {p \in Pods : p # RetestPod /\ pod[p].pc # "unused"}

Jobs ==
    [nTests : 0..MaxTests, distributed : BOOLEAN, retest : BOOLEAN,
     artifacts : BOOLEAN, podCap : 1..MaxPodCap, maxConcurrent : 0..MaxPodCap]

RunnerInit ==
    /\ job \in Jobs
    /\ runnerPc = "start"
    /\ pod = [p \in Pods |-> IdlePod]
    /\ test = [t \in Tests |-> IdleTest]
    /\ testCount = 0
    /\ testLogs = <<>>
    /\ egErr = ErrNil
    /\ runRet = NoRet
    /\ runOut = NoOut

RunnerIdle ==
    /\ job = [nTests |-> 0, distributed |-> FALSE, retest |-> FALSE,
              artifacts |-> FALSE, podCap |-> 1, maxConcurrent |-> 0]
    /\ runnerPc = "done"
    /\ pod = [p \in Pods |-> IdlePod]
    /\ test = <<>>
    /\ testCount = 0
    /\ testLogs = <<>>
    /\ egErr = ErrNil
    /\ runRet = NoRet
    /\ runOut = NoOut

\* Run, lines 228-236: the result logged for the error r.run returned.
classify(err) ==
    IF err = ErrNil THEN TestResultSuccess
    ELSE IF err = ErrFatal THEN TestResultError
    ELSE TestResultFailure

\* Run up to the call of runDistributedTest / runTest: validate, setGitToken, prepare.
RunStart ==
    /\ runnerPc = "start"
    /\ \E o \in {"ok", "validateErr", "prepareErr"} :
          \/ /\ o = "validateErr"
             /\ runOut' = [testResult |-> "none", tests |-> <<>>, err |-> ErrPlain]
             /\ runnerPc' = "done"
             /\ UNCHANGED runRet
          \/ /\ o = "prepareErr"
             /\ runRet' = [logs |-> <<>>, err |-> ErrPlain]
             /\ runnerPc' = "return"
             /\ UNCHANGED runOut
          \/ /\ o = "ok"
             /\ runnerPc' = IF job.distributed THEN "list" ELSE "runTest"
             /\ UNCHANGED <<runRet, runOut>>
    /\ UNCHANGED <<job, pod, test, testCount, testLogs, egErr, schedVars, podVars, moreVars>>

\* runTest: the job of a test that is not distributed.
RunTest ==
    /\ runnerPc = "runTest"
    /\ \E err \in {ErrNil, ErrPlain, ErrFailedTestJob} :
          runRet' = [logs |-> <<>>, err |-> err]
    /\ runnerPc' = "return"
    /\ UNCHANGED <<job, pod, test, testCount, testLogs, egErr, runOut, schedVars, podVars, moreVars>>

\* runDistributedTest, lines 371-403: the list of tests, the plan, one goroutine per pod.
TestList ==
    /\ runnerPc = "list"
    /\ \E err \in {ErrNil, ErrPlain, ErrFailedTestJob} :
          IF err # ErrNil
          THEN /\ runRet' = [logs |-> <<>>, err |-> err]
               /\ runnerPc' = "return"
               /\ UNCHANGED pod
          ELSE IF job.nTests = 0
          THEN /\ runRet' = NoRet
               /\ runnerPc' = "return"
               /\ UNCHANGED pod
          ELSE LET pl == plan([i \in 1..job.nTests |-> i], job.podCap)
               IN  /\ pod' = [p \in Pods |->
                                 IF p \in 1..Len(pl)
                                 THEN [IdlePod EXCEPT !.pc = "spawned", !.tests = pl[p]]
                                 ELSE pod[p]]
                   /\ runnerPc' = "pods"
                   /\ UNCHANGED runRet
    /\ UNCHANGED <<job, test, testCount, testLogs, egErr, runOut, schedVars, podVars, moreVars>>

\* runTests returns (logs, err) for pod p; the goroutine of runDistributedTest
\* (lines 393-402) hands the error to the errgroup or appends the logs under testLogMu.
\* The retest's call returns to retest.
PodReturn(p, logs, err) ==
    /\ pod' = [pod EXCEPT ![p].pc = "returned", ![p].ret = [logs |-> logs, err |-> err]]
    /\ IF p = RetestPod THEN UNCHANGED <<testLogs, egErr>>
       ELSE IF err # ErrNil
       THEN /\ egErr' = IF egErr = ErrNil THEN err ELSE egErr
            /\ UNCHANGED testLogs
       ELSE /\ testLogs' = testLogs \o logs
            /\ UNCHANGED egErr

\* runTests, lines 546-568: template, kubejob, and the job up to its execution handler.
RunTestsCreate(p) ==
    /\ pod[p].pc = "spawned"
    /\ \E o \in {"createErr", "jobErr", "handler"} :
          \/ /\ o = "createErr"
             /\ PodReturn(p, <<>>, ErrPlain)
          \/ /\ o = "jobErr"
             /\ PodReturn(p, <<>>, ErrFailedTestJob)
          \/ /\ o = "handler"
             /\ pod' = [pod EXCEPT
                          ![p].pc = "handler",
                          ![p].handler = TRUE,
                          ![p].groups =
                              schedule(pod[p].tests,
                                       IF p = RetestPod THEN 1 ELSE job.maxConcurrent)]
             /\ UNCHANGED <<testLogs, egErr>>
    /\ UNCHANGED <<job, runnerPc, test, testCount, runRet, runOut, schedVars, podVars, moreVars>>

\* execTests, lines 466-483, on the next group of pod p: one goroutine per executor.
ExecTestsStart(p) ==
    /\ pod[p].pc = "handler"
    /\ pod[p].groupIdx < Len(pod[p].groups)
    /\ pod' = [pod EXCEPT ![p].pc = "waiting", ![p].groupIdx = @ + 1,
                          ![p].gLogs = <<>>, ![p].gErr = "nil"]
    /\ test' = [t \in Tests |->
                   IF t \in Range(pod[p].groups[pod[p].groupIdx + 1])
                   THEN [pc |-> "spawned", result |-> "none"]
                   ELSE test[t]]
    /\ UNCHANGED <<job, runnerPc, testCount, testLogs, egErr, runRet, runOut,
                   schedVars, podVars, moreVars>>

\* errgroup.Group keeps the first error its goroutines return.
FirstErr(kept, err) == IF kept = "nil" THEN err ELSE kept

\* execTest, lines 491-529: the command is looked up and run, the test is counted.
ExecTestRun(t) ==
    /\ test[t].pc = "spawned"
    /\ \E o \in {"noCommand", TestResultSuccess, TestResultFailure} :
          IF o = "noCommand"
          THEN /\ test' = [test EXCEPT ![t].pc = "returned"]
               /\ pod' = [pod EXCEPT ![PodOf(t)].gErr = FirstErr(@, "command")]
               /\ UNCHANGED testCount
          ELSE /\ test' = [test EXCEPT ![t] = [pc |-> "executed", result |-> o]]
               /\ testCount' = testCount + 1
               /\ UNCHANGED pod
    /\ UNCHANGED <<job, runnerPc, testLogs, egErr, runRet, runOut, schedVars, podVars, moreVars>>

\* execTest, lines 531-535: what it returns after syncArtifactsIfNeeded.
execTestReturn(testLog, syncErr) ==
    IF syncErr THEN [log |-> <<>>, err |-> "sync"]
    ELSE [log |-> <<testLog>>, err |-> "nil"]

\* execTest, lines 531-535, and the goroutine of execTests, lines 474-481.
ExecTestSync(t) ==
    /\ test[t].pc = "executed"
    /\ \E syncErr \in (IF job.artifacts THEN BOOLEAN ELSE {FALSE}) :
          LET p == PodOf(t)
              r == execTestReturn([Name |-> t, TestResult |-> test[t].result,
                                   Pass |-> IF p = RetestPod THEN 2 ELSE 1], syncErr)
          IN  pod' = [pod EXCEPT ![p].gErr = FirstErr(@, r.err), ![p].gLogs = @ \o r.log]
    /\ test' = [test EXCEPT ![t] = [pc |-> "returned", result |-> "none"]]
    /\ UNCHANGED <<job, runnerPc, testCount, testLogs, egErr, runRet, runOut,
                   schedVars, podVars, moreVars>>

\* execTests, lines 484-487: what it returns once every goroutine is back.
execTestsReturn(logs, err) ==
    IF err # "nil" THEN [logs |-> <<>>, err |-> err] ELSE [logs |-> logs, err |-> "nil"]

\* execTests, lines 484-487, and the handler's loop, lines 579-585.
ExecTestsWait(p) ==
    /\ pod[p].pc = "waiting"
    /\ \A t \in PodGroup(p) : test[t].pc = "returned"
    /\ LET r == execTestsReturn(pod[p].gLogs, pod[p].gErr)
       IN  pod' = [pod EXCEPT ![p].pc = "handler",
                              ![p].groupRets = Append(@, r),
                              ![p].logs = @ \o r.logs,
                              ![p].errs = @ + (IF r.err # "nil" THEN 1 ELSE 0)]
    /\ UNCHANGED <<job, runnerPc, test, testCount, testLogs, egErr, runRet, runOut,
                   schedVars, podVars, moreVars>>

\* runTests, lines 586-602: the handler returns, the job ends, runTests returns.
RunTestsFinish(p) ==
    /\ pod[p].pc = "handler"
    /\ pod[p].groupIdx = Len(pod[p].groups)
    /\ IF pod[p].errs > 0
       THEN PodReturn(p, <<>>, ErrFailedTestJob)
       ELSE \E jobErr \in {"nil", "failedJob", "other"} :
               IF jobErr = "other"
               THEN PodReturn(p, <<>>, ErrFailedTestJob)
               ELSE PodReturn(p, pod[p].logs, ErrNil)
    /\ UNCHANGED <<job, runnerPc, test, testCount, runRet, runOut, schedVars, podVars, moreVars>>

\* validateTestLogs: every test of the list has a log.
validateTestLogs(logs) ==
    \A t \in Tests : \E i \in 1..Len(logs) : logs[i].Name = t

IsFailure(log) == log.TestResult = TestResultFailure

\* runDistributedTest, lines 412-417, keeping no log as failed.
failedTestLogsNone(logs) == <<>>

\* runDistributedTest, lines 412-417, keeping every log as failed.
failedTestLogsAll(logs) == logs

\* runDistributedTest, lines 412-417.
failedTestLogs(logs) == SelectSeq(logs, IsFailure)

\* runDistributedTest, lines 418-424, returning no error for failed tests.
distributedReturnNil(logs, failed) == [logs |-> logs, err |-> ErrNil]

\* runDistributedTest, lines 418-424, when retest is not enabled.
distributedReturn(logs, failed) ==
    IF Len(failed) > 0 THEN [logs |-> logs, err |-> ErrFailedTestJob]
    ELSE [logs |-> logs, err |-> ErrNil]

\* runDistributedTest, lines 404-425: Wait, validateTestLogs, the failed tests.
DistWait ==
    /\ runnerPc = "pods"
    /\ \A p \in PlanPods : pod[p].pc = "returned"
    /\ IF egErr # ErrNil
       THEN /\ runRet' = [logs |-> <<>>, err |-> egErr]
            /\ runnerPc' = "return"
            /\ UNCHANGED <<pod, testCount>>
       ELSE IF ~validateTestLogs(testLogs)
       THEN /\ runRet' = [logs |-> <<>>, err |-> ErrFatal]
            /\ runnerPc' = "return"
            /\ UNCHANGED <<pod, testCount>>
       ELSE LET failed == failedTestLogs(testLogs)
            IN  IF Len(failed) > 0 /\ job.retest
                THEN \* retest, lines 428-439
                     /\ pod' = [pod EXCEPT ![RetestPod] =
                                   [IdlePod EXCEPT !.pc = "spawned",
                                       !.tests = [i \in 1..Len(failed) |-> failed[i].Name]]]
                     /\ testCount' = 0
                     /\ runnerPc' = "retest"
                     /\ UNCHANGED runRet
                ELSE /\ runRet' = distributedReturn(testLogs, failed)
                     /\ runnerPc' = "return"
                     /\ UNCHANGED <<pod, testCount>>
    /\ UNCHANGED <<job, test, testLogs, egErr, runOut, schedVars, podVars, moreVars>>

\* The retest log of the test named name, if there is one (the last one wins).
RetestLogOf(retestLogs, name) ==
    LET js == {j \in 1..Len(retestLogs) : retestLogs[j].Name = name}
    IN  IF js = {} THEN <<>>
        ELSE <<retestLogs[CHOOSE j \in js : \A k \in js : k <= j]>>

\* retest returning the retest logs alone, the logs of the other tests dropped.
retestReturnRetestedOnly(logs, ret) ==
    IF ret.err # ErrNil THEN [logs |-> ret.logs, err |-> ErrFailedTestJob]
    ELSE IF \E i \in DOMAIN ret.logs : IsFailure(ret.logs[i])
    THEN [logs |-> ret.logs, err |-> ErrFailedTestJob]
    ELSE [logs |-> ret.logs, err |-> ErrNil]

\* retest, lines 440-462: the retest logs replace the logs of their tests.
retestReturn(logs, ret) ==
    LET merged == [i \in 1..Len(logs) |->
                      IF RetestLogOf(ret.logs, logs[i].Name) # <<>>
                      THEN RetestLogOf(ret.logs, logs[i].Name)[1]
                      ELSE logs[i]]
        existsFailedTest ==
            \E i \in 1..Len(logs) :
                /\ RetestLogOf(ret.logs, logs[i].Name) # <<>>
                /\ IsFailure(RetestLogOf(ret.logs, logs[i].Name)[1])
    IN  IF ret.err # ErrNil THEN [logs |-> merged, err |-> ErrFailedTestJob]
        ELSE IF existsFailedTest THEN [logs |-> merged, err |-> ErrFailedTestJob]
        ELSE [logs |-> merged, err |-> ErrNil]

\* retest, lines 439-462, once its runTests has returned.
RetestFinish ==
    /\ runnerPc = "retest"
    /\ pod[RetestPod].pc = "returned"
    /\ runRet' = retestReturn(testLogs, pod[RetestPod].ret)
    /\ runnerPc' = "return"
    /\ UNCHANGED <<job, pod, test, testCount, testLogs, egErr, runOut, schedVars, podVars, moreVars>>

\* Run, lines 224-237: the result log is filled in and the error returned.
RunReturn ==
    /\ runnerPc = "return"
    /\ runOut' = [testResult |-> classify(runRet.err), tests |-> runRet.logs,
                  err |-> runRet.err]
    /\ runnerPc' = "done"
    /\ UNCHANGED <<job, pod, test, testCount, testLogs, egErr, runRet, schedVars, podVars, moreVars>>

\* ============================================================= TaskBuilder
\* Paths are sequences of segments: filepath.Join("/", "tmp", "log") is <<"tmp", "log">>.
Join(path, elem) == Append(path, elem)

\* filepath.Dir of a path of at least one segment.
Dir(path) == SubSeq(path, 1, Len(path) - 1)

logMountPath == <<"tmp", "log">>
logMountFilePath == Join(logMountPath, "kubetest.log")
reportMountPath == <<"tmp", "report">>

RunModeKubernetes == "kubernetes"
RunModeDryRun == "dryrun"

\* The kinds of source a TestJobVolume has: Raw is a plain corev1.VolumeSource.
ManagedKinds == {"Repo", "Token", "Artifact", "Log", "Report"}
VolumeKinds == ManagedKinds \cup {"Raw"}

\* Maps (Go's map[string]T) are functions on the set of their keys.
EmptyMap == [k \in {} |-> <<>>]
Put(m, k, v) == [x \in DOMAIN m \cup {k} |-> IF x = k THEN v ELSE m[x]]
Merge(m1, m2) == [x \in DOMAIN m1 \cup DOMAIN m2 |-> IF x \in DOMAIN m2 THEN m2[x] ELSE m1[x]]

\* The zero TestJobVolume, which a lookup of an unknown volume name gives.
ZeroVolume == [Name |-> "", Kind |-> "Raw", Ref |-> "", Source |-> ""]

\* newTaskContainer, lines 929-932: volumeNameToVolume.
volumeNameToVolume(volumes) ==
    [n \in {volumes[i].Name : i \in DOMAIN volumes} |->
        volumes[CHOOSE i \in DOMAIN volumes :
                   /\ volumes[i].Name = n
                   /\ \A j \in DOMAIN volumes : volumes[j].Name = n => j <= i]]

LookupVolume(volumes, name) ==
    IF name \in DOMAIN volumeNameToVolume(volumes)
    THEN volumeNameToVolume(volumes)[name] ELSE ZeroVolume

EmptyDir(name) == [Name |-> name, Source |-> "EmptyDir"]

\* The staging path a managed volume is mounted at in the pod.
StagingPath(volume) ==
    CASE volume.Kind = "Repo" -> <<"tmp", "repo-archive", volume.Name>>
      [] volume.Kind = "Artifact" -> <<"tmp", "artifact-archive", volume.Name>>
      [] volume.Kind = "Token" -> <<"tmp", "token", volume.Name>>
      [] volume.Kind = "Log" -> logMountPath
      [] volume.Kind = "Report" -> reportMountPath

\* A TaskContainer before any volume mount is looked at.
NewTask(c) ==
    [container |-> c,
     repoNameToArchiveMountPath |-> EmptyMap, repoNameToOrgMountPath |-> EmptyMap,
     tokenNameToMountPath |-> EmptyMap, tokenNameToOrgMountPath |-> EmptyMap,
     artifactNameToMountPath |-> EmptyMap, artifactNameToOrgMountPath |-> EmptyMap,
     logOrgMountPaths |-> <<>>, reportOrgMountPaths |-> <<>>,
     podSpecVolumeMap |-> EmptyMap, preInitVolumeMountMap |-> EmptyMap]

\* The managed cases of newTaskContainer leaving the user's MountPath in the pod spec.
StagedKeepPath(tc, idx, volume) ==
    [tc EXCEPT
        !.podSpecVolumeMap = Put(@, volume.Name, EmptyDir(volume.Name)),
        !.preInitVolumeMountMap =
            Put(@, volume.Name, [Name |-> volume.Name, MountPath |-> StagingPath(volume)])]

\* The rewriting of mount idx of the container and the two volume maps (every managed case).
Staged(tc, idx, volume) ==
    [tc EXCEPT
        !.container.VolumeMounts[idx].MountPath = StagingPath(volume),
        !.podSpecVolumeMap = Put(@, volume.Name, EmptyDir(volume.Name)),
        !.preInitVolumeMountMap =
            Put(@, volume.Name, [Name |-> volume.Name, MountPath |-> StagingPath(volume)])]

\* newTaskContainer, lines 933-1020: one iteration of the loop over c.VolumeMounts.
taskContainerStep(tc, idx, volumes) ==
    LET vm == tc.container.VolumeMounts[idx]
        volume == LookupVolume(volumes, vm.Name)
    IN  CASE volume.Kind = "Repo" ->
               [Staged(tc, idx, volume) EXCEPT
                   !.repoNameToArchiveMountPath = Put(@, volume.Ref, StagingPath(volume)),
                   !.repoNameToOrgMountPath = Put(@, volume.Ref, vm.MountPath)]
          [] volume.Kind = "Artifact" ->
               [Staged(tc, idx, volume) EXCEPT
                   !.artifactNameToMountPath = Put(@, volume.Ref, StagingPath(volume)),
                   !.artifactNameToOrgMountPath = Put(@, volume.Ref, vm.MountPath)]
          [] volume.Kind = "Token" ->
               [Staged(tc, idx, volume) EXCEPT
                   !.tokenNameToMountPath = Put(@, volume.Ref, StagingPath(volume)),
                   !.tokenNameToOrgMountPath = Put(@, volume.Ref, vm.MountPath)]
          [] volume.Kind = "Log" ->
               [Staged(tc, idx, volume) EXCEPT
                   !.logOrgMountPaths = Append(@, vm.MountPath)]
          [] volume.Kind = "Report" ->
               [Staged(tc, idx, volume) EXCEPT
                   !.reportOrgMountPaths = Append(@, vm.MountPath)]
          [] OTHER ->
               [tc EXCEPT
                   !.podSpecVolumeMap =
                       Put(@, volume.Name, [Name |-> volume.Name, Source |-> volume.Source])]

RECURSIVE taskContainerLoop(_, _, _)
taskContainerLoop(tc, idx, volumes) ==
    IF idx > Len(tc.container.VolumeMounts) THEN tc
    ELSE taskContainerLoop(taskContainerStep(tc, idx, volumes), idx + 1, volumes)

\* newTaskContainer, lines 912-1035.
newTaskContainer(c, volumes) == taskContainerLoop(NewTask(c), 1, volumes)

\* TaskContainer.hasTestVolumeMount.
hasTestVolumeMount(tc) == DOMAIN tc.preInitVolumeMountMap # {}

\* newTaskContainerGroup: containerMap, keyed by container name (a later container of
\* the same name replaces an earlier one).
newTaskContainerGroup(containers, volumes) ==
    [n \in {containers[i].Name : i \in DOMAIN containers} |->
        newTaskContainer(
            containers[CHOOSE i \in DOMAIN containers :
                          /\ containers[i].Name = n
                          /\ \A j \in DOMAIN containers : containers[j].Name = n => j <= i],
            volumes)]

\* TaskContainerGroup.hasTestVolumeMount.
groupHasTestVolumeMount(g) == \E n \in DOMAIN g : hasTestVolumeMount(g[n])

\* The nil strategy key of Build.
NoStrategyKey == [present |-> FALSE, Keys |-> <<>>, ConcurrentIdx |-> 0, Env |-> ""]

\* strconv.Itoa for a natural number (the %d of fmt.Sprintf), as a sequence of characters.
RECURSIVE Itoa(_)
Itoa(n) ==
    IF n < 10 THEN <<SubSeq(<<"0", "1", "2", "3", "4", "5", "6", "7", "8", "9">>, n + 1, n + 1)[1]>>
    ELSE Itoa(n \div 10) \o Itoa(n % 10)

\* addContainersByStrategyKey, lines 345-353: the clone of the main container for key idx
\* (idx counts from 0). Container names of a pod with a strategy key are sequences of
\* characters.
cloneOfMain(mainContainer, strategyKey, idx) ==
    [mainContainer EXCEPT
        !.Name = @ \o Itoa(strategyKey.ConcurrentIdx) \o <<"-">> \o Itoa(idx),
        !.Env = Append(@, [Name |-> strategyKey.Env, Value |-> strategyKey.Keys[idx + 1]])]

\* addContainersByStrategyKey, lines 354-360.
sideCarContainers(containers, mainContainer) ==
    SelectSeq(containers, LAMBDA c : c.Name # mainContainer.Name)

\* addContainersByStrategyKey leaving the main container among the side cars.
addContainersKeepMain(containers, mainContainer, strategyKey) ==
    IF ~strategyKey.present THEN containers
    ELSE containers \o
         [i \in 1..Len(strategyKey.Keys) |-> cloneOfMain(mainContainer, strategyKey, i - 1)]

\* addContainersByStrategyKey: the containers of the pod spec after the call.
addContainersByStrategyKey(containers, mainContainer, strategyKey) ==
    IF ~strategyKey.present THEN containers
    ELSE sideCarContainers(containers, mainContainer) \o
         [i \in 1..Len(strategyKey.Keys) |-> cloneOfMain(mainContainer, strategyKey, i - 1)]

\* buildJob, lines 125-126: the copy of the template's spec with the containers of the
\* strategy key.
specWithKey(spec, mainContainer, strategyKey) ==
    [spec EXCEPT !.Containers = addContainersByStrategyKey(@, mainContainer, strategyKey)]

\* buildJob, lines 127-132: the TaskBuildContext.
newBuildContext(spec) ==
    [initContainers |-> newTaskContainerGroup(spec.InitContainers, spec.Volumes),
     containers |-> newTaskContainerGroup(spec.Containers, spec.Volumes),
     finalizerContainers |-> newTaskContainerGroup(<<spec.FinalizerContainer>>, spec.Volumes),
     spec |-> spec]

\* TaskBuildContext.needsToPreInit without the finalizer container.
needsToPreInitNoFinalizer(c) ==
    groupHasTestVolumeMount(c.initContainers) \/ groupHasTestVolumeMount(c.containers)

\* TaskBuildContext.needsToPreInit.
needsToPreInit(c) ==
    \/ groupHasTestVolumeMount(c.initContainers)
    \/ groupHasTestVolumeMount(c.containers)
    \/ groupHasTestVolumeMount(c.finalizerContainers)

\* TaskContainerGroup.podSpecVolumeMap: Go ranges over containerMap in an unspecified
\* order; the keys are volume names and a name has one volume, so every order gives
\* the same map.
RECURSIVE MergeAll(_, _)
MergeAll(g, names) ==
    IF names = {} THEN EmptyMap
    ELSE LET n == CHOOSE x \in names : TRUE
         IN  Merge(MergeAll(g, names \ {n}), g[n].podSpecVolumeMap)

groupPodSpecVolumeMap(g) == MergeAll(g, DOMAIN g)

\* The containers of the pod spec: newTaskContainer rewrote the VolumeMounts of each
\* container of the spec in place (c.VolumeMounts shares its array with the spec).
SpecContainers(containers, volumes) ==
    [i \in DOMAIN containers |-> newTaskContainer(containers[i], volumes).container]

\* TaskBuildContext.podSpec: the volumes of the init and main containers are added.
podSpec(c) ==
    [InitContainers |-> SpecContainers(c.spec.InitContainers, c.spec.Volumes),
     Containers |-> SpecContainers(c.spec.Containers, c.spec.Volumes),
     Volumes |-> Merge(groupPodSpecVolumeMap(c.initContainers),
                       groupPodSpecVolumeMap(c.containers))]

\* TaskContainerGroup.preInitImage: the image of the container with a test volume mount
\* that the range over containerMap meets first. Go's map iteration order is
\* unspecified, so this is the set of the values it can return.
groupPreInitImage(g) ==
    IF groupHasTestVolumeMount(g)
    THEN {g[n].container.Image : n \in {x \in DOMAIN g : hasTestVolumeMount(g[x])}}
    ELSE {""}

\* TaskContainerGroup.preInitImagePullPolicy, likewise.
groupPreInitImagePullPolicy(g) ==
    IF groupHasTestVolumeMount(g)
    THEN {g[n].container.ImagePullPolicy : n \in {x \in DOMAIN g : hasTestVolumeMount(g[x])}}
    ELSE {""}

\* TaskBuildContext.preInitImage: the values it can return.
preInitImage(c) ==
    UNION {IF image # "" THEN {image} ELSE groupPreInitImage(c.containers) :
           image \in groupPreInitImage(c.initContainers)}

\* TaskBuildContext.preInitImagePullPolicy: the values it can return.
preInitImagePullPolicy(c) ==
    UNION {IF policy # "" THEN {policy} ELSE groupPreInitImagePullPolicy(c.containers) :
           policy \in groupPreInitImagePullPolicy(c.initContainers)}

NoPreInit == [present |-> FALSE, Image |-> "", ImagePullPolicy |-> "", VolumeMounts |-> EmptyMap]

\* TaskContainerGroup.preInitVolumeMountMap: the mounts of the containers of the group,
\* by volume name (a volume has one staging path, so every order gives the same map).
groupPreInitVolumeMountMap(g) ==
    [k \in UNION {DOMAIN g[n].preInitVolumeMountMap : n \in DOMAIN g} |->
        g[CHOOSE n \in DOMAIN g : k \in DOMAIN g[n].preInitVolumeMountMap].preInitVolumeMountMap[k]]

\* TaskBuildContext.preInitVolumeMounts: the mounts of the init, main and finalizer
\* containers, by volume name.
preInitVolumeMounts(c) ==
    Merge(Merge(groupPreInitVolumeMountMap(c.initContainers),
                groupPreInitVolumeMountMap(c.containers)),
          groupPreInitVolumeMountMap(c.finalizerContainers))

\* TaskBuilder.preInitContainer.
preInitContainer(c, image, policy) ==
    [present |-> TRUE, Image |-> image, ImagePullPolicy |-> policy,
     VolumeMounts |-> preInitVolumeMounts(c)]

\* TaskBuildContext.taskContainer.
taskContainer(c, name, isInitContainer) ==
    IF isInitContainer THEN c.initContainers[name]
    ELSE IF name \in DOMAIN c.finalizerContainers THEN c.finalizerContainers[name]
    ELSE c.containers[name]

\* The base name of the local path the artifact manager keeps for an artifact.
ArtifactFileName(artifactName) == artifactName

\* The pre-commands of the mount functions, as what they do: remove dst first or not,
\* create the directory mkdir, then fill dst from src.
mountRepository(tc) ==
    {[kind |-> "Repo", rm |-> TRUE, mkdir |-> tc.repoNameToOrgMountPath[r],
      src |-> Join(tc.repoNameToArchiveMountPath[r], "repo.tar.gz"),
      dst |-> tc.repoNameToOrgMountPath[r]] : r \in DOMAIN tc.repoNameToArchiveMountPath}

mountToken(tc) ==
    {[kind |-> "Token", rm |-> FALSE, mkdir |-> Dir(tc.tokenNameToOrgMountPath[t]),
      src |-> Join(tc.tokenNameToMountPath[t], "token"),
      dst |-> tc.tokenNameToOrgMountPath[t]] : t \in DOMAIN tc.tokenNameToMountPath}

mountArtifact(tc, mode) ==
    IF mode = RunModeDryRun THEN {}
    ELSE {[kind |-> "Artifact", rm |-> TRUE, mkdir |-> Dir(tc.artifactNameToOrgMountPath[a]),
           src |-> Join(tc.artifactNameToMountPath[a], ArtifactFileName(a)),
           dst |-> tc.artifactNameToOrgMountPath[a]] : a \in DOMAIN tc.artifactNameToMountPath}

mountLog(tc) ==
    {[kind |-> "Log", rm |-> FALSE, mkdir |-> Dir(tc.logOrgMountPaths[i]),
      src |-> logMountFilePath, dst |-> tc.logOrgMountPaths[i]] :
        i \in DOMAIN tc.logOrgMountPaths}

mountReport(tc) ==
    {[kind |-> "Report", rm |-> FALSE, mkdir |-> Dir(tc.reportOrgMountPaths[i]),
      src |-> Join(reportMountPath, "report.json"), dst |-> tc.reportOrgMountPaths[i]] :
        i \in DOMAIN tc.reportOrgMountPaths}

\* The order in which the Mount callback of buildJob calls the mount functions.
MountRank(kind) ==
    CASE kind = "Repo" -> 1 [] kind = "Token" -> 2 [] kind = "Artifact" -> 3
      [] kind = "Log" -> 4 [] kind = "Report" -> 5

\* buildJob, lines 176-195: all the pre-commands of the Mount callback on a container.
MountCommands(tc, mode) ==
    mountRepository(tc) \cup mountToken(tc) \cup mountArtifact(tc, mode)
        \cup mountLog(tc) \cup mountReport(tc)

\* What a call of the Mount callback can do: [cmds, err], the pre-commands it issued and
\* whether it returned an error. It returns at the first mount function that fails, a
\* function of kind k having issued some of its commands (none when the artifact
\* manager does not know the artifact's path).
MountOutcomes(tc, mode) ==
    LET all == MountCommands(tc, mode)
        ofKind(k) == {cmd \in all : cmd.kind = k}
        before(k) == {cmd \in all : MountRank(cmd.kind) < MountRank(k)}
    IN  {[cmds |-> all, err |-> FALSE]} \cup
        UNION {{[cmds |-> before(k) \cup s, err |-> TRUE] :
                   s \in {x \in SUBSET ofKind(k) : x # {} \/ k = "Artifact"}} :
               k \in {cmd.kind : cmd \in all}}

\* ---------------------------------------------------------------- templates
VolumeA == [Name : {"va"}, Kind : VolumeKinds, Ref : {"r"}, Source : {"source-a"}]
VolumeB ==
    {v \in [Name : {"vb"}, Kind : VolumeKinds, Ref : {"r", "s"}, Source : {"source-b"}] :
        v.Kind \in {"Raw", "Log", "Report"} => v.Ref = "s"}

\* The volume mounts of a container: the first is declared at /p, the second at /q.
MountAt(names) ==
    [i \in DOMAIN names |->
        [Name |-> names[i], MountPath |-> IF i = 1 THEN <<"p">> ELSE <<"q">>]]

ZeroContainer == [Name |-> "", Image |-> "", ImagePullPolicy |-> "", VolumeMounts |-> <<>>]

InitContainerSet ==
    {[Name |-> "init", Image |-> "image-init", ImagePullPolicy |-> policy,
      VolumeMounts |-> MountAt(names)] :
        policy \in {"", "Always"}, names \in {<<>>, <<"va">>, <<"vb">>}}

MainContainerSet ==
    {[Name |-> "main", Image |-> "image-main", ImagePullPolicy |-> "IfNotPresent",
      VolumeMounts |-> MountAt(names)] :
        names \in {<<>>, <<"va">>, <<"vb">>, <<"va", "vb">>}}

SideContainerSet ==
    {[Name |-> "side", Image |-> "image-side", ImagePullPolicy |-> "Never",
      VolumeMounts |-> MountAt(names)] : names \in {<<>>, <<"vb">>}}

FinalizerContainerSet ==
    {ZeroContainer} \cup
    {[Name |-> "fin", Image |-> "image-fin", ImagePullPolicy |-> "Always",
      VolumeMounts |-> MountAt(names)] : names \in {<<>>, <<"va">>}}

Templates ==
    {[Volumes |-> <<a, b>>, InitContainers |-> <<i>>, Containers |-> <<m, s>>,
      FinalizerContainer |-> f] :
        a \in VolumeA, b \in VolumeB, i \in InitContainerSet, m \in MainContainerSet,
        s \in SideContainerSet, f \in FinalizerContainerSet}

ContainerNames == {"init", "main", "side", "fin", ""}

NoJob == [podSpec |-> [InitContainers |-> <<>>, Containers |-> <<>>, Volumes |-> EmptyMap],
          preInit |-> NoPreInit]

BuildInit ==
    /\ tmpl \in Templates
    /\ runMode \in {RunModeKubernetes, RunModeDryRun}
    /\ buildPc = "ready"
    /\ buildCtx = newBuildContext(specWithKey(tmpl, tmpl.Containers[1], NoStrategyKey))
    /\ builtJob = NoJob
    /\ issued = [n \in ContainerNames |-> {}]
    /\ prepared = [n \in ContainerNames |-> "none"]
    /\ started = {}

BuildIdle ==
    /\ tmpl = [Volumes |-> <<>>, InitContainers |-> <<>>, Containers |-> <<>>,
               FinalizerContainer |-> ZeroContainer]
    /\ runMode = RunModeDryRun
    /\ buildPc = "done"
    /\ buildCtx = newBuildContext(tmpl)
    /\ builtJob = NoJob
    /\ issued = [n \in ContainerNames |-> {}]
    /\ prepared = [n \in ContainerNames |-> "none"]
    /\ started = {}


\* ------------------------------------------------------------------ actions
\* buildJob: the build context, the pod spec, the job, the pre-init container.
BuildJob ==
    /\ buildPc = "ready"
    /\ \E o \in {"ok", "jobErr", "callbackErr"} :
          IF (o = "jobErr" /\ runMode # RunModeDryRun)
             \/ (o = "callbackErr" /\ needsToPreInit(buildCtx))
          THEN /\ buildPc' = "failed"
               /\ UNCHANGED builtJob
          ELSE /\ buildPc' = "built"
               /\ \E image \in preInitImage(buildCtx),
                     policy \in preInitImagePullPolicy(buildCtx) :
                     builtJob' =
                         [podSpec |-> podSpec(buildCtx),
                          preInit |-> IF needsToPreInit(buildCtx)
                                      THEN preInitContainer(buildCtx, image, policy)
                                      ELSE NoPreInit]
    /\ UNCHANGED <<tmpl, runMode, buildCtx, issued, prepared, started,
                   schedVars, podVars, runnerVars, keyVars, expandVars, lateVars>>

NamesOf(containers) == {containers[i].Name : i \in DOMAIN containers}

\* kubernetesJob keeps the mount callbacks; localJob and dryRunJob drop them.
\* RunWithExecutionHandler starts with the init containers.
RunJob ==
    /\ buildPc = "built"
    /\ buildPc' = IF runMode # RunModeKubernetes THEN "handler"
                  ELSE IF builtJob.podSpec.InitContainers = <<>> THEN "main"
                  ELSE "init"
    /\ UNCHANGED <<tmpl, runMode, buildCtx, builtJob, issued, prepared, started,
                   schedVars, podVars, runnerVars, keyVars, expandVars, lateVars>>

\* The next container of the list whose mount callbacks were not called.
NextToPrepare(containers) ==
    CHOOSE i \in DOMAIN containers :
        /\ prepared[containers[i].Name] = "none"
        /\ \A j \in DOMAIN containers : prepared[containers[j].Name] = "none" => i <= j

\* The mount callbacks on container name: the pre-commands are issued one after the
\* other and the error of the callbacks is dropped.
Prepare(name, isInitContainer) ==
    \E o \in MountOutcomes(taskContainer(buildCtx, name, isInitContainer), runMode) :
        /\ issued' = [issued EXCEPT ![name] = o.cmds]
        /\ prepared' = [prepared EXCEPT ![name] = IF o.err THEN "failed" ELSE "ok"]

\* RunWithExecutionHandler, lines 110-120: the init container handler up to ExecOnly.
InitPrepare ==
    /\ buildPc = "init"
    /\ \E i \in DOMAIN builtJob.podSpec.InitContainers :
          /\ prepared[builtJob.podSpec.InitContainers[i].Name] = "none"
          /\ i = NextToPrepare(builtJob.podSpec.InitContainers)
          /\ \A j \in 1..(i - 1) : builtJob.podSpec.InitContainers[j].Name \in started
          /\ Prepare(builtJob.podSpec.InitContainers[i].Name, TRUE)
    /\ UNCHANGED <<tmpl, runMode, buildPc, buildCtx, builtJob, started,
                   schedVars, podVars, runnerVars, keyVars, expandVars, lateVars>>

\* RunWithExecutionHandler, lines 120-121: ExecOnly runs the init container's command.
InitExec ==
    /\ buildPc = "init"
    /\ \E n \in NamesOf(builtJob.podSpec.InitContainers) :
          /\ prepared[n] # "none"
          /\ n \notin started
          /\ started' = started \cup {n}
          /\ \E err \in BOOLEAN :
                buildPc' = IF err THEN "done"
                           ELSE IF NamesOf(builtJob.podSpec.InitContainers) \subseteq started'
                           THEN "main" ELSE "init"
    /\ UNCHANGED <<tmpl, runMode, buildCtx, builtJob, issued, prepared,
                   schedVars, podVars, runnerVars, keyVars, expandVars, lateVars>>

\* RunWithExecutionHandler, lines 124-137: the mount callbacks on the next executor.
MainPrepare ==
    /\ buildPc = "main"
    /\ \E i \in DOMAIN builtJob.podSpec.Containers :
          /\ prepared[builtJob.podSpec.Containers[i].Name] = "none"
          /\ i = NextToPrepare(builtJob.podSpec.Containers)
          /\ Prepare(builtJob.podSpec.Containers[i].Name, FALSE)
    /\ UNCHANGED <<tmpl, runMode, buildPc, buildCtx, builtJob, started,
                   schedVars, podVars, runnerVars, keyVars, expandVars, lateVars>>

\* RunWithExecutionHandler calling the handler without the loop over the executors.
CallHandlerEarly ==
    /\ buildPc = "main"
    /\ buildPc' = "handler"
    /\ UNCHANGED <<tmpl, runMode, buildCtx, builtJob, issued, prepared, started,
                   schedVars, podVars, runnerVars, keyVars, expandVars, lateVars>>

\* RunWithExecutionHandler, line 138: the handler is called with the executors.
CallHandler ==
    /\ buildPc = "main"
    /\ \A n \in NamesOf(builtJob.podSpec.Containers) : prepared[n] # "none"
    /\ buildPc' = "handler"
    /\ UNCHANGED <<tmpl, runMode, buildCtx, builtJob, issued, prepared, started,
                   schedVars, podVars, runnerVars, keyVars, expandVars, lateVars>>

\* The handler starts a container's command: Output of a sub-task, ExecAsync of a sidecar.
ExecUserCommand ==
    /\ buildPc = "handler"
    /\ \E n \in NamesOf(builtJob.podSpec.Containers) \ started :
          started' = started \cup {n}
    /\ UNCHANGED <<tmpl, runMode, buildPc, buildCtx, builtJob, issued, prepared,
                   schedVars, podVars, runnerVars, keyVars, expandVars, lateVars>>

\* The handler returns and RunWithExecutionHandler with it.
HandlerReturn ==
    /\ buildPc = "handler"
    /\ NamesOf(builtJob.podSpec.Containers) \subseteq started
    /\ buildPc' = "done"
    /\ UNCHANGED <<tmpl, runMode, buildCtx, builtJob, issued, prepared, started,
                   schedVars, podVars, runnerVars, keyVars, expandVars, lateVars>>

\* =========================================== TaskScheduler, dynamic key source
\* The output of the key step is a string over this alphabet.
Alphabet == {"a", "b", " ", "\n", ","}

MaxOut == 4         \* longest output of the key step

defaultDelim == "\n"

\* TaskScheduler.sourceDelim.
sourceDelim(delim) == IF delim = "" THEN defaultDelim ELSE delim

\* unicode.IsSpace on the alphabet.
IsSpace(ch) == ch \in {" ", "\n"}

\* strings.Split(str, sep) for a separator of one character: the pieces between the
\* occurrences of sep, empty pieces included.
RECURSIVE SplitFrom(_, _, _, _)
SplitFrom(str, sep, i, piece) ==
    IF i > Len(str) THEN <<piece>>
    ELSE IF str[i] = sep THEN <<piece>> \o SplitFrom(str, sep, i + 1, <<>>)
    ELSE SplitFrom(str, sep, i + 1, Append(piece, str[i]))

Split(str, sep) == SplitFrom(str, sep, 1, <<>>)

\* strings.TrimSpace.
RECURSIVE TrimLeft(_)
TrimLeft(str) ==
    IF str # <<>> /\ IsSpace(Head(str)) THEN TrimLeft(Tail(str)) ELSE str

RECURSIVE TrimRight(_)
TrimRight(str) ==
    IF str # <<>> /\ IsSpace(str[Len(str)]) THEN TrimRight(SubSeq(str, 1, Len(str) - 1))
    ELSE str

TrimSpace(str) == TrimRight(TrimLeft(str))

\* The filters of the model: none, ^a+$, b, and one that does not compile.
Filters == {"", "^a+$", "b", "("}

\* regexp.Compile fails.
CompileFails(filter) == filter = "("

\* Regexp.MatchString for the filters of the model.
MatchString(filter, str) ==
    CASE filter = "^a+$" -> str # <<>> /\ \A i \in DOMAIN str : str[i] = "a"
      [] filter = "b" -> \E i \in DOMAIN str : str[i] = "b"

\* dynamicKeys, lines 145-153: the body of the loop over the pieces; what it appends.
keepKey(filter, key) ==
    IF TrimSpace(key) = <<>> THEN <<>>
    ELSE IF filter # "" /\ ~MatchString(filter, key) THEN <<>>
    ELSE <<key>>

RECURSIVE keysLoop(_, _, _)
keysLoop(pieces, filter, keys) ==
    IF pieces = <<>> THEN keys
    ELSE keysLoop(Tail(pieces), filter, keys \o keepKey(filter, Head(pieces)))

\* dynamicKeys taking the first main result when there are several.
dynamicKeysFirstResult(source) ==
    IF source.buildErr THEN [keys |-> <<>>, err |-> "build", extracted |-> FALSE]
    ELSE IF source.runErr THEN [keys |-> <<>>, err |-> "run", extracted |-> FALSE]
    ELSE IF source.mainResults = 0
    THEN [keys |-> <<>>, err |-> "noMainResult", extracted |-> FALSE]
    ELSE IF CompileFails(source.Filter)
    THEN [keys |-> <<>>, err |-> "filter", extracted |-> FALSE]
    ELSE [keys |-> keysLoop(Split(source.out, sourceDelim(source.Delim)), source.Filter, <<>>),
          err |-> "nil", extracted |-> TRUE]

\* TaskScheduler.dynamicKeys: [keys, err], and whether the output was split into keys.
dynamicKeys(source) ==
    IF source.buildErr THEN [keys |-> <<>>, err |-> "build", extracted |-> FALSE]
    ELSE IF source.runErr THEN [keys |-> <<>>, err |-> "run", extracted |-> FALSE]
    ELSE IF source.mainResults = 0
    THEN [keys |-> <<>>, err |-> "noMainResult", extracted |-> FALSE]
    ELSE IF source.mainResults > 1
    THEN [keys |-> <<>>, err |-> "multipleMainResults", extracted |-> FALSE]
    ELSE IF CompileFails(source.Filter)
    THEN [keys |-> <<>>, err |-> "filter", extracted |-> FALSE]
    ELSE [keys |-> keysLoop(Split(source.out, sourceDelim(source.Delim)), source.Filter, <<>>),
          err |-> "nil", extracted |-> TRUE]

\* The most main results the key step reports.
MaxMainResults == 2

\* Status is the Status of the main result when the key step reports exactly one
\* (SubTask.Run gives a failed sub-task a result and a nil error).
KeySources ==
    [out : SeqsUpTo(Alphabet, MaxOut), Delim : {"", ","}, Filter : Filters,
     mainResults : 0..MaxMainResults, buildErr : BOOLEAN, runErr : BOOLEAN,
     Status : {TaskResultSuccess, TaskResultFailure}]

NoKeysOut == [tasks |-> <<>>, err |-> "nil", keys |-> <<>>, extracted |-> FALSE]

KeysInit ==
    /\ keySource \in {k \in KeySources :
                         /\ k.buildErr => ~k.runErr
                         /\ k.Status = TaskResultFailure => k.mainResults = 1
                         /\ (k.buildErr \/ k.runErr) =>
                                (k.out = <<>> /\ k.mainResults = 0 /\ k.Delim = ""
                                 /\ k.Filter = "")}
    /\ keyMaxContainers \in {1, 2}
    /\ keysPc = "ready"
    /\ keysOut = NoKeysOut

KeysIdle ==
    /\ keySource = [out |-> <<>>, Delim |-> "", Filter |-> "", mainResults |-> 0,
                    buildErr |-> FALSE, runErr |-> FALSE, Status |-> TaskResultSuccess]
    /\ keyMaxContainers = 1
    /\ keysPc = "done"
    /\ keysOut = NoKeysOut

\* Schedule with a dynamic key source: getScheduleKeys calls dynamicKeys, then the
\* tasks are built from the keys.
ScheduleDynamic ==
    /\ keysPc = "ready"
    /\ LET got == dynamicKeys(keySource)
       IN  keysOut' =
               IF got.err # "nil"
               THEN [tasks |-> <<>>, err |-> got.err, keys |-> <<>>,
                     extracted |-> got.extracted]
               ELSE [tasks |-> ScheduleKeys(got.keys, keyMaxContainers, -1).tasks,
                     err |-> ScheduleKeys(got.keys, keyMaxContainers, -1).err,
                     keys |-> got.keys, extracted |-> got.extracted]
    /\ keysPc' = "done"
    /\ UNCHANGED <<keySource, keyMaxContainers, schedVars, podVars, runnerVars, buildVars,
                   expandVars, lateVars>>

\* ================================================= strategy-key expansion
MaxContainers == 3      \* most containers of the pod spec
MaxCloneKeys == 2       \* most keys of a strategy key
MaxConcurrentIdx == 10  \* largest ConcurrentIdx

\* Container names, as sequences of characters.
NameSet == {<<"m">>, <<"s">>, <<"m", "0", "-", "0">>}

PodContainerSet ==
    [Name : NameSet, Image : {"image"}, Env : {<<>>, <<[Name |-> "E", Value |-> "v"]>>}]

StrategyKeys ==
    {NoStrategyKey} \cup
    [present : {TRUE}, Keys : SeqsUpTo(KeyNames, MaxCloneKeys),
     ConcurrentIdx : {0, 1, MaxConcurrentIdx}, Env : {"KEY"}]

\* getMainContainerFromTmpl gives a container of the template.
ExpandInit ==
    /\ podContainers \in SeqsUpTo(PodContainerSet, MaxContainers) \ {<<>>}
    /\ expandMain \in Range(podContainers)
    /\ expandKey \in StrategyKeys
    /\ expanded = <<>>
    /\ expandPc = "ready"

ExpandIdle ==
    /\ podContainers = <<>>
    /\ expandMain = [Name |-> <<>>, Image |-> "", Env |-> <<>>]
    /\ expandKey = NoStrategyKey
    /\ expanded = <<>>
    /\ expandPc = "done"

\* buildJob's call of addContainersByStrategyKey on the copy of the spec.
Expand ==
    /\ expandPc = "ready"
    /\ expanded' = addContainersByStrategyKey(podContainers, expandMain, expandKey)
    /\ expandPc' = "done"
    /\ UNCHANGED <<podContainers, expandMain, expandKey, schedVars, podVars, runnerVars, buildVars,
                   keyVars, lateVars>>

\* ============================================== preInitCallback and its backends
RunModeLocal == "local"

\* The longest list of copy paths the templates give.
MaxCopies == 2

\* sort.Strings over the names the templates use.
NameOrder == <<"r", "s">>
sortStrings(names) == SelectSeq(NameOrder, LAMBDA n : n \in names)

Base(path) == path[Len(path)]

\* TaskContainerGroup.repoNames, tokenNames, artifactNames: the keys of the field
\* (repoNameToArchiveMountPath, tokenNameToMountPath, artifactNameToMountPath) of
\* every container of the group.
groupNames(g, field) == UNION {DOMAIN g[n][field] : n \in DOMAIN g}

\* TaskBuildContext.repoNames, tokenNames, artifactNames: the three groups, sorted.
ctxNames(c, field) ==
    sortStrings(groupNames(c.initContainers, field) \cup groupNames(c.containers, field)
                \cup groupNames(c.finalizerContainers, field))

\* TaskContainerGroup.repoNameToArchiveMountPath and its two siblings: the path of the
\* first container, in Go's unspecified map order, that has the name: a set of outcomes.
groupPaths(g, field, name) ==
    {g[n][field][name] : n \in {x \in DOMAIN g : name \in DOMAIN g[x][field]}}

\* TaskBuildContext.repoNameToArchiveMountPath and its two siblings: the init
\* containers first, then the main ones, then the finalizer.
ctxPaths(c, field, name) ==
    IF groupPaths(c.initContainers, field, name) # {}
    THEN groupPaths(c.initContainers, field, name)
    ELSE IF groupPaths(c.containers, field, name) # {}
    THEN groupPaths(c.containers, field, name)
    ELSE groupPaths(c.finalizerContainers, field, name)

\* TaskBuildContext.isUsedLogVolume, isUsedReportVolume.
groupUses(g, field) == \E n \in DOMAIN g : Len(g[n][field]) # 0
isUsedVolume(c, field) ==
    \/ groupUses(c.initContainers, field)
    \/ groupUses(c.containers, field)
    \/ groupUses(c.finalizerContainers, field)

\* The ResourceManager's paths of a registered name.
RepositoryPathByName(name) == <<"mgr", "repo", name, "repo.tar.gz">>
TokenPathByName(name) == <<"mgr", "token", name, "token">>
ArtifactPathByName(name) == <<"mgr", "artifact", name>>
LogPath == <<"mgr", "log", "kubetest.log">>
ReportPath == <<"mgr", "report", "report.json">>

\* preInitCallback with getCopyPathForToken and getCopyPathForArtifact never failing.
lookupErrReposOnly(c, mode, registered) ==
    IF \E i \in DOMAIN ctxNames(c, "repoNameToArchiveMountPath") :
           ctxNames(c, "repoNameToArchiveMountPath")[i] \notin registered
    THEN "RepositoryError"
    ELSE "nil"

\* The error of the first lookup that fails while preInitCallback collects its copy
\* paths: repositories, then tokens, then (not in dry-run) artifacts.
lookupErr(c, mode, registered) ==
    IF \E i \in DOMAIN ctxNames(c, "repoNameToArchiveMountPath") :
           ctxNames(c, "repoNameToArchiveMountPath")[i] \notin registered
    THEN "RepositoryError"
    ELSE IF \E i \in DOMAIN ctxNames(c, "tokenNameToMountPath") :
           ctxNames(c, "tokenNameToMountPath")[i] \notin registered
    THEN "TokenError"
    ELSE IF /\ mode # RunModeDryRun
            /\ \E i \in DOMAIN ctxNames(c, "artifactNameToMountPath") :
                   ctxNames(c, "artifactNameToMountPath")[i] \notin registered
    THEN "ArtifactError"
    ELSE "nil"


\* The staging paths the names of a field may be given, one choice per name.
pathChoices(c, field) ==
    LET names == ctxNames(c, field)
    IN  {f \in [DOMAIN names -> UNION {ctxPaths(c, field, names[i]) : i \in DOMAIN names}] :
            \A i \in DOMAIN names : f[i] \in ctxPaths(c, field, names[i])}

\* getCopyPathForRepository, ForToken, ForArtifact, ForLog, ForReport.
getCopyPathForRepository(c) ==
    LET names == ctxNames(c, "repoNameToArchiveMountPath")
    IN  {[i \in DOMAIN names |->
            [src |-> RepositoryPathByName(names[i]),
             dst |-> Join(f[i], Base(RepositoryPathByName(names[i])))]] :
         f \in pathChoices(c, "repoNameToArchiveMountPath")}

getCopyPathForToken(c) ==
    LET names == ctxNames(c, "tokenNameToMountPath")
    IN  {[i \in DOMAIN names |->
            [src |-> TokenPathByName(names[i]),
             dst |-> Join(f[i], Base(TokenPathByName(names[i])))]] :
         f \in pathChoices(c, "tokenNameToMountPath")}

getCopyPathForArtifact(c, mode) ==
    LET names == ctxNames(c, "artifactNameToMountPath")
    IN  IF mode = RunModeDryRun THEN {<<>>}
        ELSE {[i \in DOMAIN names |-> [src |-> ArtifactPathByName(names[i]), dst |-> f[i]]] :
              f \in pathChoices(c, "artifactNameToMountPath")}

getCopyPathForLog(c, mode) ==
    IF mode # RunModeDryRun /\ isUsedVolume(c, "logOrgMountPaths")
    THEN <<[src |-> LogPath, dst |-> logMountFilePath]>>
    ELSE <<>>

getCopyPathForReport(c, mode) ==
    IF mode # RunModeDryRun /\ isUsedVolume(c, "reportOrgMountPaths")
    THEN <<[src |-> ReportPath, dst |-> Join(reportMountPath, Base(ReportPath))]>>
    ELSE <<>>

\* preInitCallback, lines 385-410: the copy paths the callback will go through.
copyPathsOf(c, mode) ==
    {r \o t \o a \o getCopyPathForLog(c, mode) \o getCopyPathForReport(c, mode) :
        r \in getCopyPathForRepository(c), t \in getCopyPathForToken(c),
        a \in getCopyPathForArtifact(c, mode)}

\* ---------------------------------------------------------------- templates
StageVolumeB ==
    {v \in VolumeB : v.Kind \in {"Repo", "Artifact", "Raw"}}

StageTemplates ==
    {[Volumes |-> <<a, b>>,
      InitContainers |-> <<[Name |-> "init", Image |-> "image-init", ImagePullPolicy |-> "",
                            VolumeMounts |-> MountAt(i)]>>,
      Containers |-> <<[Name |-> "main", Image |-> "image-main",
                        ImagePullPolicy |-> "IfNotPresent", VolumeMounts |-> MountAt(m)]>>,
      FinalizerContainer |-> f] :
        a \in VolumeA, b \in StageVolumeB, i \in {<<>>, <<"va">>},
        m \in {<<>>, <<"va">>, <<"vb">>, <<"va", "vb">>},
        f \in {ZeroContainer,
               [Name |-> "fin", Image |-> "image-fin", ImagePullPolicy |-> "Always",
                VolumeMounts |-> MountAt(<<"vb">>)]}}

NoTask == [task |-> FALSE, err |-> "nil", preInit |-> FALSE, copyPaths |-> <<>>]

StageInit ==
    /\ stTmpl \in StageTemplates
    /\ stMode \in {RunModeKubernetes, RunModeLocal, RunModeDryRun}
    /\ stRegistered \in SUBSET {"r", "s"}
    /\ stPc = "ready"
    /\ stTask = NoTask
    /\ copyIdx = 0
    /\ cbPc = "idle"
    /\ cbErr = "nil"
    /\ copyPc = <<>>
    /\ copyErr = <<>>
    /\ stStarted = {}
    /\ stResults = EmptyMap
    /\ stRunErr = "nil"

StageIdle ==
    /\ stTmpl = [Volumes |-> <<>>, InitContainers |-> <<>>, Containers |-> <<>>,
                 FinalizerContainer |-> ZeroContainer]
    /\ stMode = RunModeDryRun
    /\ stRegistered = {}
    /\ stPc = "done"
    /\ stTask = NoTask
    /\ copyIdx = 0
    /\ cbPc = "idle"
    /\ cbErr = "nil"
    /\ copyPc = <<>>
    /\ copyErr = <<>>
    /\ stStarted = {}
    /\ stResults = EmptyMap
    /\ stRunErr = "nil"

stCtx == newBuildContext(stTmpl)

\* ------------------------------------------------------------------ actions
\* BuildWithKey and buildJob: the job of the run mode, then, when a managed volume is
\* mounted, the copy paths of the pre-init callback; a lookup that fails gives no Task.
StageBuild ==
    /\ stPc = "ready"
    /\ \E o \in {"ok", "jobErr"} :
          IF o = "jobErr" /\ stMode # RunModeDryRun
          THEN /\ stPc' = "failed"
               /\ stTask' = [NoTask EXCEPT !.err = "JobError"]
          ELSE IF needsToPreInit(stCtx) /\ lookupErr(stCtx, stMode, stRegistered) # "nil"
          THEN /\ stPc' = "failed"
               /\ stTask' = [NoTask EXCEPT !.err = lookupErr(stCtx, stMode, stRegistered)]
          ELSE /\ stPc' = "built"
               /\ \E paths \in copyPathsOf(stCtx, stMode) :
                     stTask' = [task |-> TRUE, err |-> "nil",
                                preInit |-> needsToPreInit(stCtx) /\ stMode # RunModeDryRun,
                                copyPaths |-> IF needsToPreInit(stCtx) /\ stMode # RunModeDryRun
                                              THEN paths ELSE <<>>]
    /\ UNCHANGED <<stTmpl, stMode, stRegistered, copyIdx, cbPc, cbErr, copyPc, copyErr,
                   stStarted, stResults, stRunErr, schedVars, podVars, runnerVars, buildVars, keyVars,
                   expandVars, backVars, maskVars, finVars, rebuildVars>>

\* RunWithExecutionHandler up to the pre-init callback: kubernetesJob has kubejob call
\* it from the pre-init container (the pod may fail to start), localJob calls it
\* itself, dryRunJob kept no callback.
StageRun ==
    /\ stPc = "built"
    /\ \E o \in {"ok", "podErr"} :
          IF o = "podErr" /\ stMode = RunModeKubernetes
          THEN /\ stPc' = "done"
               /\ stRunErr' = "JobError"
               /\ UNCHANGED <<cbPc, copyIdx, copyPc, copyErr>>
          ELSE /\ stRunErr' = "nil"
               /\ IF stTask.preInit
                  THEN /\ stPc' = "preinit"
                       /\ cbPc' = "loop"
                       /\ copyIdx' = 1
                       /\ copyPc' = [i \in DOMAIN stTask.copyPaths |-> "none"]
                       /\ copyErr' = [i \in DOMAIN stTask.copyPaths |-> "nil"]
                  ELSE /\ stPc' = "containers"
                       /\ UNCHANGED <<cbPc, copyIdx, copyPc, copyErr>>
    /\ UNCHANGED <<stTmpl, stMode, stRegistered, stTask, cbErr, stStarted, stResults,
                   schedVars, podVars, runnerVars, buildVars, keyVars, expandVars, backVars, maskVars, finVars, rebuildVars>>

\* The callback's loop, lines 411-431: past the last path it returns nil; otherwise
\* it makes errChan and starts the goroutine of the next copy.
CallbackLoop ==
    /\ stPc = "preinit"
    /\ cbPc = "loop"
    /\ IF copyIdx > Len(stTask.copyPaths)
       THEN /\ cbPc' = "returned"
            /\ cbErr' = "nil"
            /\ UNCHANGED copyPc
       ELSE /\ cbPc' = "select"
            /\ copyPc' = [copyPc EXCEPT ![copyIdx] = "copying"]
            /\ UNCHANGED cbErr
    /\ UNCHANGED <<stTmpl, stMode, stRegistered, stPc, stTask, copyIdx, copyErr, stStarted, stResults,
                   stRunErr, schedVars, podVars, runnerVars, buildVars, keyVars, expandVars, backVars, maskVars, finVars, rebuildVars>>

\* The goroutine, lines 417-419: CopyTo returns and the goroutine is at its send on
\* the unbuffered errChan.
CopyToReturn(i) ==
    /\ i \in DOMAIN copyPc
    /\ copyPc[i] = "copying"
    /\ copyPc' = [copyPc EXCEPT ![i] = "sending"]
    /\ \E e \in {"nil", "CopyError"} : copyErr' = [copyErr EXCEPT ![i] = e]
    /\ UNCHANGED <<stTmpl, stMode, stRegistered, stPc, stTask, copyIdx, cbPc, cbErr, stStarted, stResults,
                   stRunErr, schedVars, podVars, runnerVars, buildVars, keyVars, expandVars, backVars, maskVars, finVars, rebuildVars>>

\* The receive with the loop going on to the next path whatever the copy returned.
CallbackReceiveKeepGoing ==
    /\ cbPc = "select"
    /\ copyPc[copyIdx] = "sending"
    /\ copyPc' = [copyPc EXCEPT ![copyIdx] = "done"]
    /\ cbPc' = "loop"
    /\ copyIdx' = copyIdx + 1
    /\ UNCHANGED cbErr
    /\ UNCHANGED <<stTmpl, stMode, stRegistered, stPc, stTask, copyErr, stStarted, stResults,
                   stRunErr, schedVars, podVars, runnerVars, buildVars, keyVars, expandVars, backVars, maskVars, finVars, rebuildVars>>

\* The select's case err := <-errChan, lines 423-424: the send and the receive meet.
CallbackReceive ==
    /\ cbPc = "select"
    /\ copyPc[copyIdx] = "sending"
    /\ copyPc' = [copyPc EXCEPT ![copyIdx] = "done"]
    /\ IF copyErr[copyIdx] = "nil"
       THEN /\ cbPc' = "loop"
            /\ copyIdx' = copyIdx + 1
            /\ UNCHANGED cbErr
       ELSE /\ cbPc' = "returned"
            /\ cbErr' = copyErr[copyIdx]
            /\ UNCHANGED copyIdx
    /\ UNCHANGED <<stTmpl, stMode, stRegistered, stPc, stTask, copyErr, stStarted, stResults,
                   stRunErr, schedVars, podVars, runnerVars, buildVars, keyVars, expandVars, backVars, maskVars, finVars, rebuildVars>>

\* The select's case <-ctx.Done(), lines 421-422: the timeout passed, or the parent
\* context was cancelled; the callback returns ctx.Err() and nobody receives on errChan.
CallbackTimeout ==
    /\ cbPc = "select"
    /\ cbPc' = "returned"
    /\ cbErr' = "DeadlineExceeded"
    /\ UNCHANGED <<stTmpl, stMode, stRegistered, stPc, stTask, copyIdx, copyPc, copyErr,
                   stStarted, stResults, stRunErr, schedVars, podVars, runnerVars, buildVars, keyVars,
                   expandVars, backVars, maskVars, finVars, rebuildVars>>

\* The callback returned. kubernetesJob hands its error to kubejob, which fails the
\* job; localJob drops the returned value, makes the symlinks and calls the handler.
AfterPreInit ==
    /\ stPc = "preinit"
    /\ cbPc = "returned"
    /\ \E o \in {"ok", "symlinkErr"} :
          IF stMode = RunModeKubernetes /\ cbErr # "nil"
          THEN /\ stPc' = "done"
               /\ stRunErr' = cbErr
          ELSE IF stMode = RunModeLocal /\ o = "symlinkErr"
          THEN /\ stPc' = "done"
               /\ stRunErr' = "SymlinkError"
          ELSE /\ stPc' = "containers"
               /\ UNCHANGED stRunErr
    /\ UNCHANGED <<stTmpl, stMode, stRegistered, stTask, copyIdx, cbPc, cbErr, copyPc, copyErr,
                   stStarted, stResults, schedVars, podVars, runnerVars, buildVars, keyVars, expandVars, backVars, maskVars, finVars, rebuildVars>>

\* The containers whose command the backend runs: kubernetesJob the init containers
\* and then the main ones, localJob and dryRunJob the main ones only.
stageContainers ==
    IF stMode = RunModeKubernetes
    THEN NamesOf(stTmpl.InitContainers) \cup NamesOf(stTmpl.Containers)
    ELSE NamesOf(stTmpl.Containers)

\* dryRunJobExecutor.Output failing as a command of another backend may.
execOutputAnyMode(mode) ==
    {[out |-> "output", err |-> e] : e \in {"nil", "CommandError"}}

\* JobExecutor.Output: dryRunJobExecutor gives the placeholder and no error; the
\* command of another backend gives its output and may fail.
execOutput(mode) ==
    IF mode = RunModeDryRun
    THEN {[out |-> "( dry running .... )", err |-> "nil"]}
    ELSE {[out |-> "output", err |-> e] : e \in {"nil", "CommandError"}}

\* The copyArtifact closure of BuildWithKey: nil at once in dry-run; otherwise nil
\* when the container has no artifact, or the outcome of the path lookup and of CopyFrom.
copyArtifactOutcomes(mode) ==
    IF mode = RunModeDryRun
    THEN {[err |-> "nil", copyFrom |-> FALSE]}
    ELSE {[err |-> "nil", copyFrom |-> FALSE], [err |-> "nil", copyFrom |-> TRUE],
          [err |-> "ArtifactError", copyFrom |-> FALSE],
          [err |-> "CopyError", copyFrom |-> TRUE]}

\* SubTask.Run: the SubTaskResult of a sub-task of the run mode.
subTaskRun(mode) ==
    {[Status |-> IF o.err = "nil" /\ a.err = "nil" THEN "success" ELSE "failure",
      Out |-> o.out, Err |-> o.err, ArtifactErr |-> a.err, copyFrom |-> a.copyFrom] :
        o \in execOutput(mode), a \in copyArtifactOutcomes(mode)}

\* A container's command is run: an init container's by kubejob, a main container's
\* by SubTask.Run, which leaves a result.
StartContainer(n) ==
    /\ stPc = "containers"
    /\ n \in stageContainers \ stStarted
    /\ n \in NamesOf(stTmpl.Containers) /\ stMode = RunModeKubernetes
          => NamesOf(stTmpl.InitContainers) \subseteq stStarted
    /\ stStarted' = stStarted \cup {n}
    /\ IF n \in NamesOf(stTmpl.Containers)
       THEN \E result \in subTaskRun(stMode) : stResults' = Put(stResults, n, result)
       ELSE UNCHANGED stResults
    /\ UNCHANGED <<stTmpl, stMode, stRegistered, stPc, stTask, copyIdx, cbPc, cbErr, copyPc,
                   copyErr, stRunErr, schedVars, podVars, runnerVars, buildVars, keyVars,
                   expandVars, backVars, maskVars, finVars, rebuildVars>>

\* The handler returned: the run is over.
StageFinish ==
    /\ stPc = "containers"
    /\ stStarted = stageContainers
    /\ stPc' = "done"
    /\ \E e \in {"nil", "FailedJob"} : stRunErr' = e
    /\ UNCHANGED <<stTmpl, stMode, stRegistered, stTask, copyIdx, cbPc, cbErr, copyPc, copyErr,
                   stStarted, stResults, schedVars, podVars, runnerVars, buildVars, keyVars, expandVars, backVars, maskVars, finVars, rebuildVars>>

\* ============================================== artifact copy-back (copyArtifact)
\* Container names are sequences of characters, as in addContainersByStrategyKey.
MaxBackKeys == 3

\* ResourceManager.ArtifactPathByNameAndContainerName: the file of the artifact in the
\* staging directory <root>/artifact/<name>/<container>/; it has the base name of the
\* artifact's path in the container.
ArtifactPathByNameAndContainerName(artifact, containerName) ==
    <<"root", "artifact", artifact.Name, containerName, Base(artifact.Container.Path)>>

\* The sub-tasks of the task: one per container of the expanded pod spec; the clones
\* of the main container (without a strategy key, the main container) are main.
backExpanded == addContainersByStrategyKey(backContainers, backMain, backKey)

backSubTasks ==
    [i \in DOMAIN backExpanded |->
        [Name |-> backExpanded[i].Name,
         isMain |-> IF backKey.present
                    THEN i > Len(sideCarContainers(backContainers, backMain))
                    ELSE backExpanded[i].Name = backMain.Name]]

\* copyArtifact with the destination looked up under the name of the main container.
copyArtifactToMainName(subtask, mainContainer, artifacts, agent, mode) ==
    LET containerName == IF subtask.isMain THEN mainContainer.Name ELSE subtask.Name
        owned == SelectSeq(artifacts, LAMBDA x : x.Container.Name = containerName)
    IN  IF mode = RunModeDryRun THEN <<>>
        ELSE [i \in DOMAIN owned |->
                [src |-> owned[i].Container.Path,
                 dst |-> IF agent
                         THEN Dir(ArtifactPathByNameAndContainerName(owned[i], containerName))
                         ELSE ArtifactPathByNameAndContainerName(owned[i], containerName)]]

\* copyArtifact, lines 74-108: the CopyFrom calls (src, dst) it makes when none fails.
copyArtifact(subtask, mainContainer, artifacts, agent, mode) ==
    LET containerName == IF subtask.isMain THEN mainContainer.Name ELSE subtask.Name
        owned == SelectSeq(artifacts, LAMBDA x : x.Container.Name = containerName)
    IN  IF mode = RunModeDryRun THEN <<>>
        ELSE [i \in DOMAIN owned |->
                [src |-> owned[i].Container.Path,
                 dst |-> IF agent
                         THEN Dir(ArtifactPathByNameAndContainerName(owned[i], subtask.Name))
                         ELSE ArtifactPathByNameAndContainerName(owned[i], subtask.Name)]]

\* ---------------------------------------------------------------- templates
BackContainer(name) == [Name |-> name, Image |-> "image", Env |-> <<>>]

BackContainerLists ==
    {<<BackContainer(<<"m">>)>>, <<BackContainer(<<"m">>), BackContainer(<<"s">>)>>,
     <<BackContainer(<<"s">>), BackContainer(<<"m">>)>>}

BackArtifact(name, container, file) ==
    [Name |-> name, Container |-> [Name |-> container, Path |-> <<"work", file>>]]

BackArtifactLists ==
    {<<>>, <<BackArtifact("art", <<"m">>, "artifact")>>,
     <<BackArtifact("art", <<"m">>, "artifact"), BackArtifact("side", <<"s">>, "artifact")>>,
     <<BackArtifact("art", <<"m">>, "artifact"), BackArtifact("more", <<"m">>, "other")>>}

BackKeys ==
    {NoStrategyKey} \cup
    [present : {TRUE}, Keys : SeqsUpTo(KeyNames, MaxBackKeys) \ {<<>>},
     ConcurrentIdx : {0, 1}, Env : {"KEY"}]

BackInit ==
    /\ backContainers \in BackContainerLists
    /\ backArtifacts \in BackArtifactLists
    /\ backMain = BackContainer(<<"m">>)
    /\ backKey \in BackKeys
    /\ backAgent \in BOOLEAN
    /\ backMode \in {RunModeKubernetes, RunModeDryRun}
    /\ backResults = EmptyMap

BackIdle ==
    /\ backContainers = <<>>
    /\ backArtifacts = <<>>
    /\ backMain = BackContainer(<<>>)
    /\ backKey = NoStrategyKey
    /\ backAgent = FALSE
    /\ backMode = RunModeDryRun
    /\ backResults = EmptyMap

\* ------------------------------------------------------------------ actions
\* SubTask.Run of sub-task i reaches t.copyArtifact: the CopyFrom calls are made in
\* order until one fails (failAt = 0: none fails).
CopyBack(i) ==
    /\ i \in DOMAIN backSubTasks
    /\ backSubTasks[i].Name \notin DOMAIN backResults
    /\ LET calls == copyArtifact(backSubTasks[i], backMain, backArtifacts, backAgent, backMode)
       IN  \E failAt \in 0..Len(calls) :
              backResults' =
                  Put(backResults, backSubTasks[i].Name,
                      [isMain |-> backSubTasks[i].isMain,
                       err |-> IF failAt = 0 THEN "nil" ELSE "CopyError",
                       copies |-> IF failAt = 0 THEN calls ELSE SubSeq(calls, 1, failAt)])
    /\ UNCHANGED <<backContainers, backArtifacts, backMain, backKey, backAgent, backMode,
                   stageVars, maskVars, finVars, rebuildVars, schedVars, podVars, runnerVars, buildVars,
                   keyVars, expandVars>>

\* ================================================================ MaskedMessage
MaxMsgLen == 3
MaxMasks == 2

MaskAlphabet == {"a", "b", "*"}

\* The token values that may be registered: none is empty.
MaskTokens ==
    {<<"a">>, <<"b">>, <<"a", "b">>, <<"b", "a">>, <<"a", "a">>, <<"a", "*">>}

\* strings.Repeat("*", n).
Repeat(n) == [i \in 1..n |-> "*"]

HasPrefix(str, prefix) ==
    Len(str) >= Len(prefix) /\ SubSeq(str, 1, Len(prefix)) = prefix

\* strings.Replace(str, old, new, -1) for a non-empty old: the non-overlapping
\* occurrences of old are replaced from left to right.
RECURSIVE Replace(_, _, _)
Replace(str, old, new) ==
    IF str = <<>> THEN <<>>
    ELSE IF HasPrefix(str, old)
    THEN new \o Replace(SubSeq(str, Len(old) + 1, Len(str)), old, new)
    ELSE <<Head(str)>> \o Replace(Tail(str), old, new)

\* MaskedMessage.mask: the masks are applied one after the other, in order.
RECURSIVE mask(_, _)
mask(msg, masks) ==
    IF masks = <<>> THEN msg
    ELSE mask(Replace(msg, Head(masks), Repeat(Len(Head(masks)))), Tail(masks))

\* newMaskedMessage("", nil).
MaskInit ==
    /\ mmMsg = <<>>
    /\ mmMasks = <<>>
    /\ mmPc = "open"
    /\ mmOut = <<>>

MaskIdle ==
    /\ mmMsg = <<>>
    /\ mmMasks = <<>>
    /\ mmPc = "read"
    /\ mmOut = <<>>

\* MaskedMessage.addMessage.
AddMessage(c) ==
    /\ mmPc = "open"
    /\ Len(mmMsg) < MaxMsgLen
    /\ mmMsg' = Append(mmMsg, c)
    /\ UNCHANGED <<mmMasks, mmPc, mmOut, stageVars, backVars, finVars, rebuildVars, schedVars, podVars,
                   runnerVars, buildVars, keyVars, expandVars>>

\* MaskedMessage.addMask.
AddMask(token) ==
    /\ mmPc = "open"
    /\ Len(mmMasks) < MaxMasks
    /\ mmMasks' = Append(mmMasks, token)
    /\ UNCHANGED <<mmMsg, mmPc, mmOut, stageVars, backVars, finVars, rebuildVars, schedVars, podVars,
                   runnerVars, buildVars, keyVars, expandVars>>

\* MaskedMessage.String (Filter(m.msg) gives the same text).
String ==
    /\ mmPc = "open"
    /\ mmOut' = mask(mmMsg, mmMasks)
    /\ mmPc' = "read"
    /\ UNCHANGED <<mmMsg, mmMasks, stageVars, backVars, finVars, rebuildVars, schedVars, podVars,
                   runnerVars, buildVars, keyVars, expandVars>>

\* ====================================================== OnFinishSubTask of Schedule
MaxFinish == 3

FinTasks == 1..finTotal

\* finishedKeyNum is a uint32; it stays below the number of sub-tasks, far from 2^32.

\* sync.Mutex.Lock going through although the mutex is held.
lockFreeAlways(mu) == TRUE

\* sync.Mutex.Lock goes through when nobody holds the mutex.
lockFree(mu) == mu = 0

FinInit ==
    /\ finBranch \in {"single", "multi"}
    /\ finTotal \in 1..MaxFinish
    /\ finishedKeyNum = 0
    /\ onFinishMu = 0
    /\ finPc = [t \in 1..finTotal |-> "running"]
    /\ finLocal = [t \in 1..finTotal |-> 0]
    /\ finCalls = [t \in 1..finTotal |-> 0]
    /\ finLogged = [t \in 1..finTotal |-> 0]

FinIdle ==
    /\ finBranch = "single"
    /\ finTotal = 0
    /\ finishedKeyNum = 0
    /\ onFinishMu = 0
    /\ finPc = <<>>
    /\ finLocal = <<>>
    /\ finCalls = <<>>
    /\ finLogged = <<>>

FinOthers ==
    <<stageVars, backVars, maskVars, rebuildVars, schedVars, podVars, runnerVars, buildVars, keyVars,
      expandVars>>

\* SubTask.Run returns: its deferred function stops the executor and gets to t.OnFinish.
RunDeferred(t) ==
    /\ t \in FinTasks
    /\ finPc[t] = "running"
    /\ finPc' = [finPc EXCEPT ![t] = "deferred"]
    /\ UNCHANGED <<finBranch, finTotal, finishedKeyNum, onFinishMu, finLocal, finCalls,
                   finLogged, FinOthers>>

\* The callback of the single-pod branch, line 62: onFinishMu.Lock().
OnFinishLock(t) ==
    /\ t \in FinTasks
    /\ finBranch = "single"
    /\ finPc[t] = "deferred"
    /\ lockFree(onFinishMu)
    /\ onFinishMu' = t
    /\ finCalls' = [finCalls EXCEPT ![t] = @ + 1]
    /\ finPc' = [finPc EXCEPT ![t] = "locked"]
    /\ UNCHANGED <<finBranch, finTotal, finishedKeyNum, finLocal, finLogged, FinOthers>>

\* Line 64, finishedKeyNum++: the load.
OnFinishLoad(t) ==
    /\ t \in FinTasks
    /\ finPc[t] = "locked"
    /\ finLocal' = [finLocal EXCEPT ![t] = finishedKeyNum]
    /\ finPc' = [finPc EXCEPT ![t] = "loaded"]
    /\ UNCHANGED <<finBranch, finTotal, finishedKeyNum, onFinishMu, finCalls, finLogged,
                   FinOthers>>

\* Line 64, finishedKeyNum++: the store.
OnFinishStore(t) ==
    /\ t \in FinTasks
    /\ finPc[t] = "loaded"
    /\ finishedKeyNum' = finLocal[t] + 1
    /\ finPc' = [finPc EXCEPT ![t] = "stored"]
    /\ UNCHANGED <<finBranch, finTotal, onFinishMu, finLocal, finCalls, finLogged, FinOthers>>

\* The callback of the multi-pod branch, line 92: atomic.AddUint32(&finishedKeyNum, 1).
OnFinishAtomicAdd(t) ==
    /\ t \in FinTasks
    /\ finBranch = "multi"
    /\ finPc[t] = "deferred"
    /\ finishedKeyNum' = finishedKeyNum + 1
    /\ finCalls' = [finCalls EXCEPT ![t] = @ + 1]
    /\ finPc' = [finPc EXCEPT ![t] = "stored"]
    /\ UNCHANGED <<finBranch, finTotal, onFinishMu, finLocal, finLogged, FinOthers>>

\* Lines 65-68 and 93-96: the progress line; it reads finishedKeyNum (in the multi-pod
\* branch without synchronisation, so the value is that of some moment after the add).
OnFinishLog(t) ==
    /\ t \in FinTasks
    /\ finPc[t] = "stored"
    /\ finLogged' = [finLogged EXCEPT ![t] = finishedKeyNum]
    /\ finPc' = [finPc EXCEPT ![t] = "logged"]
    /\ UNCHANGED <<finBranch, finTotal, finishedKeyNum, onFinishMu, finLocal, finCalls,
                   FinOthers>>

\* The callback returns (the single-pod branch unlocks onFinishMu, line 63) and the
\* sub-task has finished.
OnFinishReturn(t) ==
    /\ t \in FinTasks
    /\ finPc[t] = "logged"
    /\ onFinishMu' = IF finBranch = "single" /\ onFinishMu = t THEN 0 ELSE onFinishMu
    /\ finPc' = [finPc EXCEPT ![t] = "finished"]
    /\ UNCHANGED <<finBranch, finTotal, finishedKeyNum, finLocal, finCalls, finLogged,
                   FinOthers>>

\* ================================================ repeated builds of a template
MaxBuilds == 2

\* The zero TestJobContainer of a template whose containers are named by sequences.
RebuildZeroContainer ==
    [Name |-> <<>>, Image |-> "", ImagePullPolicy |-> "", VolumeMounts |-> <<>>, Env |-> <<>>]

RebuildContainer(name, mounts) ==
    [Name |-> name, Image |-> "image", ImagePullPolicy |-> "", VolumeMounts |-> MountAt(mounts),
     Env |-> <<>>]

RebuildTemplates ==
    {[Volumes |-> <<a, b>>,
      InitContainers |-> <<RebuildContainer(<<"i">>, i)>>,
      Containers |-> <<RebuildContainer(<<"m">>, m), RebuildContainer(<<"s">>, <<"vb">>)>>,
      FinalizerContainer |-> f] :
        a \in VolumeA,
        b \in {v \in VolumeB : v.Kind \in {"Repo", "Log", "Raw"} /\ v.Ref = "s"},
        i \in {<<>>, <<"va">>}, m \in {<<"va">>, <<"va", "vb">>},
        f \in {RebuildZeroContainer, RebuildContainer(<<"f">>, <<"va">>)}}

\* The strategy keys Build (none) and Schedule's BuildWithKey calls give.
RebuildKeys ==
    {NoStrategyKey,
     [present |-> TRUE, Keys |-> <<"A", "B">>, ConcurrentIdx |-> 0, Env |-> "KEY"],
     [present |-> TRUE, Keys |-> <<"A">>, ConcurrentIdx |-> 1, Env |-> "KEY"]}

\* A copy of the spec that shares the arrays of the template's containers.
ShallowCopy(spec) == [spec |-> spec, aliased |-> TRUE]

\* tmpl.Spec.DeepCopy(): a copy of the spec that shares nothing with the template.
DeepCopy(spec) == [spec |-> spec, aliased |-> FALSE]

\* What the writes of newTaskContainer (c.VolumeMounts[idx].MountPath = ...) do to the
\* template when the spec the build works on shares the arrays of the template's
\* containers: the clones of the main container are deep copies in any case.
writtenThrough(spec, mainContainer, strategyKey) ==
    [spec EXCEPT
        !.InitContainers = SpecContainers(@, spec.Volumes),
        !.Containers =
            [i \in DOMAIN @ |->
                IF strategyKey.present /\ @[i].Name = mainContainer.Name THEN @[i]
                ELSE newTaskContainer(@[i], spec.Volumes).container],
        !.FinalizerContainer = newTaskContainer(@, spec.Volumes).container]

\* What a build keeps of its TaskBuildContext: the original mount paths it recorded.
recordedPaths(g) ==
    [n \in DOMAIN g |->
        [repo |-> g[n].repoNameToOrgMountPath, token |-> g[n].tokenNameToOrgMountPath,
         artifact |-> g[n].artifactNameToOrgMountPath, log |-> g[n].logOrgMountPaths,
         report |-> g[n].reportOrgMountPaths]]

RebuildInit ==
    /\ rbTmpl \in RebuildTemplates
    /\ rbOrig = rbTmpl
    /\ rbBuilds = <<>>

RebuildIdle ==
    /\ rbTmpl = [Volumes |-> <<>>, InitContainers |-> <<>>, Containers |-> <<>>,
                 FinalizerContainer |-> RebuildZeroContainer]
    /\ rbOrig = rbTmpl
    /\ rbBuilds = <<>>

\* BuildWithKey and buildJob on the template: the copy of the spec, the containers of
\* the strategy key, the build context (whose construction rewrites the mount paths of
\* the spec it is given) and the pod spec.
Rebuild(strategyKey) ==
    /\ Len(rbBuilds) < MaxBuilds
    /\ LET mainContainer == rbTmpl.Containers[1]
           cp == DeepCopy(rbTmpl)
           c == newBuildContext(specWithKey(cp.spec, mainContainer, strategyKey))
       IN  /\ rbBuilds' = Append(rbBuilds,
                  [key |-> strategyKey,
                   initContainers |-> recordedPaths(c.initContainers),
                   containers |-> recordedPaths(c.containers),
                   finalizerContainers |-> recordedPaths(c.finalizerContainers),
                   podSpec |-> podSpec(c)])
           /\ rbTmpl' = IF cp.aliased THEN writtenThrough(rbTmpl, mainContainer, strategyKey)
                        ELSE rbTmpl
    /\ UNCHANGED <<rbOrig, stageVars, backVars, maskVars, finVars, schedVars, podVars,
                   runnerVars, buildVars, keyVars, expandVars>>

LateIdle == StageIdle /\ BackIdle /\ MaskIdle /\ FinIdle /\ RebuildIdle

MoreIdle == BuildIdle /\ KeysIdle /\ ExpandIdle /\ LateIdle

\* ========================================================== specifications
SchedSpecInit == SchedInit /\ PodIdle /\ RunnerIdle /\ MoreIdle

SchedNext == Schedule

SchedSpec == SchedSpecInit /\ [][SchedNext]_vars

PodSpecInit == PodInit /\ SchedIdle /\ RunnerIdle /\ MoreIdle

PodNext ==
    \/ PodSchedule
    \/ GroupRun
    \/ \E t \in SubTasks : SubTaskStart(t)
    \/ \E t \in SubTasks : SubTaskOutput(t)
    \/ \E t \in SubTasks : SubTaskCopyArtifact(t)
    \/ \E t \in SubTasks : SubTaskFinish(t)
    \/ \E t \in SubTasks : GroupAdd(t)
    \/ GroupWait
    \/ PodFinish

PodSpec == PodSpecInit /\ [][PodNext]_vars

RunnerSpecInit == RunnerInit /\ SchedIdle /\ PodIdle /\ MoreIdle

RunnerNext ==
    \/ RunStart
    \/ RunTest
    \/ TestList
    \/ \E p \in Pods : RunTestsCreate(p)
    \/ \E p \in Pods : ExecTestsStart(p)
    \/ \E t \in Tests : ExecTestRun(t)
    \/ \E t \in Tests : ExecTestSync(t)
    \/ \E p \in Pods : ExecTestsWait(p)
    \/ \E p \in Pods : RunTestsFinish(p)
    \/ DistWait
    \/ RetestFinish
    \/ RunReturn

RunnerSpec == RunnerSpecInit /\ [][RunnerNext]_vars

BuildSpecInit ==
    BuildInit /\ SchedIdle /\ PodIdle /\ RunnerIdle /\ KeysIdle /\ ExpandIdle /\ LateIdle

BuildNext ==
    \/ BuildJob
    \/ RunJob
    \/ InitPrepare
    \/ InitExec
    \/ MainPrepare
    \/ CallHandler
    \/ ExecUserCommand
    \/ HandlerReturn

BuildSpec == BuildSpecInit /\ [][BuildNext]_vars

KeysSpecInit ==
    KeysInit /\ SchedIdle /\ PodIdle /\ RunnerIdle /\ BuildIdle /\ ExpandIdle /\ LateIdle

KeysNext == ScheduleDynamic

KeysSpec == KeysSpecInit /\ [][KeysNext]_vars

ExpandSpecInit ==
    ExpandInit /\ SchedIdle /\ PodIdle /\ RunnerIdle /\ BuildIdle /\ KeysIdle /\ LateIdle

ExpandNext == Expand

ExpandSpec == ExpandSpecInit /\ [][ExpandNext]_vars

EarlyIdle == SchedIdle /\ PodIdle /\ RunnerIdle /\ BuildIdle /\ KeysIdle /\ ExpandIdle

StageSpecInit == StageInit /\ EarlyIdle /\ BackIdle /\ MaskIdle /\ FinIdle /\ RebuildIdle

StageNext ==
    \/ StageBuild
    \/ StageRun
    \/ CallbackLoop
    \/ \E i \in 1..MaxCopies : CopyToReturn(i)
    \/ CallbackReceive
    \/ CallbackTimeout
    \/ AfterPreInit
    \/ \E n \in {"init", "main"} : StartContainer(n)
    \/ StageFinish

StageSpec == StageSpecInit /\ [][StageNext]_vars

BackSpecInit == BackInit /\ EarlyIdle /\ StageIdle /\ MaskIdle /\ FinIdle /\ RebuildIdle

BackNext == \E i \in 1..(MaxBackKeys + 1) : CopyBack(i)

BackSpec == BackSpecInit /\ [][BackNext]_vars

MaskSpecInit == MaskInit /\ EarlyIdle /\ StageIdle /\ BackIdle /\ FinIdle /\ RebuildIdle

MaskNext ==
    \/ \E c \in MaskAlphabet : AddMessage(c)
    \/ \E token \in MaskTokens : AddMask(token)
    \/ String

MaskSpec == MaskSpecInit /\ [][MaskNext]_vars

FinSpecInit == FinInit /\ EarlyIdle /\ StageIdle /\ BackIdle /\ MaskIdle /\ RebuildIdle

FinNext ==
    \E t \in 1..MaxFinish :
       \/ RunDeferred(t)
       \/ OnFinishLock(t)
       \/ OnFinishLoad(t)
       \/ OnFinishStore(t)
       \/ OnFinishAtomicAdd(t)
       \/ OnFinishLog(t)
       \/ OnFinishReturn(t)

FinSpec == FinSpecInit /\ [][FinNext]_vars

RebuildSpecInit == RebuildInit /\ EarlyIdle /\ StageIdle /\ BackIdle /\ MaskIdle /\ FinIdle

RebuildNext == \E k \in RebuildKeys : Rebuild(k)

RebuildSpec == RebuildSpecInit /\ [][RebuildNext]_vars

\* ----------------------------------------------- claims on TaskScheduler
\* Schedule has returned a task group for a strategy of N >= 1 keys and cap M >= 1.
Scheduled ==
    /\ schedPc = "done"
    /\ strategy.present
    /\ schedOut.err = "nil"
    /\ Len(strategy.keys) >= 1
    /\ strategy.maxContainersPerPod >= 1

SchedN == Len(strategy.keys)
SchedM == strategy.maxContainersPerPod
SchedTasks == schedOut.tasks

\* C1: with N >= 1 keys and cap M >= 1, Schedule returns exactly ceil(N/M) tasks whose
\* key-list sizes are M, M, ..., and last N mod M (or M when M divides N).
C1_TaskCountAndSizes ==
    Scheduled =>
        /\ Len(SchedTasks) = CeilDiv(SchedN, SchedM)
        /\ \A i \in 1..Len(SchedTasks) :
              Len(SchedTasks[i].Keys) =
                  IF i < Len(SchedTasks) THEN SchedM
                  ELSE IF SchedN % SchedM = 0 THEN Min(SchedM, SchedN) ELSE SchedN % SchedM

\* C2: the key lists of the returned tasks, concatenated in task order, are the
\* original key sequence; task i (ConcurrentIdx i) holds the slice [i*M, (i+1)*M) of it
\* (cut at N), so the lists are disjoint contiguous slices.
C2_KeysPartition ==
    Scheduled =>
        /\ Concat([i \in 1..Len(SchedTasks) |-> SchedTasks[i].Keys]) = strategy.keys
        /\ \A i \in 1..Len(SchedTasks) :
              /\ SchedTasks[i].ConcurrentIdx = i - 1
              /\ SchedTasks[i].Keys =
                     Slice(strategy.keys, (i - 1) * SchedM, Min(i * SchedM, SchedN))

\* A schedule over several pods, the last one partly filled.
C2_Witness ==
    /\ Scheduled
    /\ SchedM >= 2
    /\ SchedN > SchedM
    /\ SchedN % SchedM # 0
    /\ Len(SchedTasks) >= 2
    /\ \E i, j \in 1..SchedN : strategy.keys[i] # strategy.keys[j]

\* C3: when N > M >= 1 every returned task carries between 1 and M keys; the last
\* task's key list is never empty.
C3_NoEmptyTask ==
    (Scheduled /\ SchedN > SchedM) =>
        \A i \in 1..Len(SchedTasks) :
            /\ Len(SchedTasks[i].Keys) >= 1
            /\ Len(SchedTasks[i].Keys) <= SchedM

\* -------------------------------------------- claims on the pod's sub-tasks
\* C4: with MaxConcurrentNumPerPod = K > 0, never more than K sub-tasks of the pod are
\* between the start and the end of their Run.
C4_ConcurrencyCap ==
    maxConcurrentNumPerPod > 0 =>
        Cardinality({t \in SubTasks : InRun(t)}) <= maxConcurrentNumPerPod

\* A later group of a capped pod with K sub-tasks in their Run at once.
C4_Witness ==
    /\ maxConcurrentNumPerPod > 0
    /\ maxConcurrentNumPerPod < numSubTasks
    /\ groupIdx >= 2
    /\ Cardinality({t \in SubTasks : InRun(t)}) = maxConcurrentNumPerPod

\* C5: SubTaskScheduler.Schedule on N sub-tasks with cap K returns one group of all N
\* when K <= 0 or K >= N (also for N = 0); otherwise ceil(N/K) groups whose
\* concatenation is the input, all of size K but the last, which has 1..K.
C5_GroupShape ==
    podPc # "ready" =>
        LET N == numSubTasks
            K == maxConcurrentNumPerPod
        IN  IF K <= 0 \/ K >= N
            THEN groups = <<subTaskList>>
            ELSE /\ Len(groups) = CeilDiv(N, K)
                 /\ Concat(groups) = subTaskList
                 /\ \A i \in 1..(Len(groups) - 1) : Len(groups[i]) = K
                 /\ Len(groups[Len(groups)]) \in 1..K

\* Scheduled with a cap that does not divide the number of sub-tasks.
C5_Witness ==
    /\ podPc # "ready"
    /\ maxConcurrentNumPerPod > 1
    /\ maxConcurrentNumPerPod < numSubTasks
    /\ numSubTasks % maxConcurrentNumPerPod # 0
    /\ Len(groups) >= 2

\* C6: groups run strictly one after another: no sub-task of a later group has started
\* unless every sub-task of every earlier group has finished and reported, and a
\* group's Run has returned only when all of its sub-tasks have reported.
C6_GroupsSequential ==
    /\ \A i, j \in 1..Len(groups) :
          i < j =>
             \A s \in Range(groups[i]), t \in Range(groups[j]) :
                 subPc[t] # "idle" => subPc[s] = "added"
    /\ \A i \in 1..Len(podResults) :
          /\ \A s \in Range(groups[i]) : subPc[s] = "added"
          /\ Len(podResults[i].results) = Len(groups[i])

\* A sub-task of the second group runs after the first group (of two or more) reported.
C6_Witness ==
    /\ Len(groups) >= 2
    /\ Len(groups[1]) >= 2
    /\ Len(podResults) >= 1
    /\ \E t \in Range(groups[2]) : InRun(t)

\* C7: the result SubTask.Run returns has Status = failure iff Err or ArtifactErr is
\* set, and Status = success iff both are nil.
C7_StatusIffErrors ==
    \A t \in SubTasks :
        subPc[t] \in {"finished", "added"} =>
            /\ subResult[t].Status \in {TaskResultSuccess, TaskResultFailure}
            /\ (subResult[t].Status = TaskResultFailure) <=>
                   (subResult[t].Err \/ subResult[t].ArtifactErr)

\* Two returned results: a command that succeeded with a failed copy-back, and a
\* failed command with a successful copy-back.
C7_Witness ==
    \E t, u \in SubTasks :
        /\ subPc[t] \in {"finished", "added"}
        /\ subPc[u] \in {"finished", "added"}
        /\ ~subResult[t].Err /\ subResult[t].ArtifactErr
        /\ subResult[t].Status = TaskResultFailure
        /\ subResult[u].Err /\ ~subResult[u].ArtifactErr
        /\ subResult[u].Status = TaskResultFailure

\* ------------------------------------------------- claims on TestJobRunner
\* C8: sub-task errors never pass the sub-task boundary: whatever commands and
\* artifact copies fail in a group, running the group returns no error and exactly one
\* result per sub-task of the group; a failed artifact copy discards no sibling result.
\* (Stated for the groups in which no command lookup failed.)
C8_NoErrorPastSubTask ==
    \A p \in Pods :
        \A i \in 1..Len(pod[p].groupRets) :
            pod[p].groupRets[i].err # "command" =>
                /\ pod[p].groupRets[i].err = "nil"
                /\ Len(pod[p].groupRets[i].logs) = Len(pod[p].groups[i])
                /\ \A t \in Range(pod[p].groups[i]) :
                      \E j \in 1..Len(pod[p].groupRets[i].logs) :
                          pod[p].groupRets[i].logs[j].Name = t

RunDone == runnerPc = "done" /\ runOut.testResult # "none"

AllSuccess(logs) == \A i \in 1..Len(logs) : logs[i].TestResult = TestResultSuccess

OnlyCommandsFailed ==
    /\ RunDone
    /\ job.distributed
    /\ Len(runOut.tests) = job.nTests
    /\ ~AllSuccess(runOut.tests)
    /\ egErr = ErrNil
    /\ pod[RetestPod].ret.err = ErrNil

\* C10 as claimed: when the only problem is failed commands, the runner returns the
\* aggregated results with status failure and a nil error.
C10_FailureWithoutError ==
    OnlyCommandsFailed =>
        /\ runOut.testResult = TestResultFailure
        /\ runOut.err = ErrNil

\* C10 as amended: when the only problem is failed commands, the run's result is
\* failure with the aggregated results (one per test), and the error returned is
\* ErrFailedTestJob: not nil, and not matching ErrFatal.
C10_FailureWithFailedTestJob ==
    OnlyCommandsFailed =>
        /\ runOut.testResult = TestResultFailure
        /\ runOut.err = ErrFailedTestJob
        /\ \A t \in Tests : \E i \in 1..Len(runOut.tests) : runOut.tests[i].Name = t

\* A run without retest in which one of two commands failed.
C10_Witness ==
    /\ OnlyCommandsFailed
    /\ ~job.retest
    /\ job.nTests = 2
    /\ \E i \in 1..2 : runOut.tests[i].TestResult = TestResultSuccess

\* A pod job whose template or kubejob could not be created: runTests returned its
\* error before the job ran (lines 546-553).
BuildFailed(p) ==
    /\ pod[p].pc = "returned"
    /\ ~pod[p].handler
    /\ pod[p].ret.err = ErrPlain

\* C11: whenever building a pod job fails (template creation or job creation returns
\* an error), the error the runner returns matches ErrFatal and the run is classified
\* as error, never as an ordinary test failure.
C11_BuildErrorIsFatal ==
    (RunDone /\ \E p \in Pods : BuildFailed(p)) =>
        /\ runOut.err = ErrFatal
        /\ runOut.testResult = TestResultError

\* ---------------------------------------------------- claims on TaskBuilder
Built == buildPc \notin {"ready", "failed"}

\* The user containers of the template in declaration order: init, main, finalizer.
UserContainers ==
    [i \in 1..Len(tmpl.InitContainers) |->
        [c |-> tmpl.InitContainers[i], isInit |-> TRUE, group |-> "init", idx |-> i]]
    \o [i \in 1..Len(tmpl.Containers) |->
        [c |-> tmpl.Containers[i], isInit |-> FALSE, group |-> "main", idx |-> i]]
    \o (IF tmpl.FinalizerContainer.Name = "" THEN <<>>
        ELSE <<[c |-> tmpl.FinalizerContainer, isInit |-> FALSE, group |-> "fin", idx |-> 1]>>)

\* The volume the template declares under a name.
DeclaredVolume(name) ==
    tmpl.Volumes[CHOOSE i \in DOMAIN tmpl.Volumes : tmpl.Volumes[i].Name = name]

IsManaged(vm) == DeclaredVolume(vm.Name).Kind \in ManagedKinds

DeclaresManaged(c) == \E j \in DOMAIN c.VolumeMounts : IsManaged(c.VolumeMounts[j])

\* The staging path of a volume as the specification gives it.
ClaimedStagingPath(volume) ==
    CASE volume.Kind = "Repo" -> <<"tmp", "repo-archive", volume.Name>>
      [] volume.Kind = "Token" -> <<"tmp", "token", volume.Name>>
      [] volume.Kind = "Artifact" -> <<"tmp", "artifact-archive", volume.Name>>
      [] volume.Kind = "Log" -> <<"tmp", "log">>
      [] volume.Kind = "Report" -> <<"tmp", "report">>

\* C12: mount fidelity. For every container (init, main or finalizer) and every mount
\* of a Repo, Token, Artifact, Log or Report volume the user declared on it at path P,
\* the pre-commands generated for the container include one that fills exactly P from
\* the staging path of that volume, also when the container mounts two volumes of the
\* same repository, token or artifact at two paths. (Stated for the cluster run mode.)
C12_MountFidelity ==
    (Built /\ runMode = RunModeKubernetes) =>
        \A u \in Range(UserContainers) :
            \A j \in DOMAIN u.c.VolumeMounts :
                IsManaged(u.c.VolumeMounts[j]) =>
                    \E cmd \in MountCommands(taskContainer(buildCtx, u.c.Name, u.isInit),
                                             runMode) :
                        /\ cmd.kind = DeclaredVolume(u.c.VolumeMounts[j].Name).Kind
                        /\ cmd.dst = u.c.VolumeMounts[j].MountPath
                        /\ Dir(cmd.src) =
                               ClaimedStagingPath(DeclaredVolume(u.c.VolumeMounts[j].Name))

\* The containers of the built pod spec next to the user's: init and main containers.
PodContainer(u) ==
    IF u.isInit THEN builtJob.podSpec.InitContainers[u.idx]
    ELSE builtJob.podSpec.Containers[u.idx]

\* C13: in every built pod spec, each Repo/Token/Artifact/Log/Report volume mount of
\* every init and main container has its MountPath rewritten to the staging path of
\* its kind and is backed by an empty-directory volume of the same name; mounts of
\* raw volumes keep the user's MountPath and volume source.
C13_StagingRewrite ==
    Built =>
        \A u \in {x \in Range(UserContainers) : x.group # "fin"} :
            /\ Len(PodContainer(u).VolumeMounts) = Len(u.c.VolumeMounts)
            /\ \A j \in DOMAIN u.c.VolumeMounts :
                  LET vm == u.c.VolumeMounts[j]
                      volume == DeclaredVolume(vm.Name)
                      out == PodContainer(u).VolumeMounts[j]
                  IN  /\ out.Name = vm.Name
                      /\ vm.Name \in DOMAIN builtJob.podSpec.Volumes
                      /\ builtJob.podSpec.Volumes[vm.Name].Name = vm.Name
                      /\ IF volume.Kind \in ManagedKinds
                         THEN /\ out.MountPath = ClaimedStagingPath(volume)
                              /\ builtJob.podSpec.Volumes[vm.Name].Source = "EmptyDir"
                         ELSE /\ out.MountPath = vm.MountPath
                              /\ builtJob.podSpec.Volumes[vm.Name].Source = volume.Source

\* A built pod whose main container mounts a repository volume at /p and a raw volume
\* at /q.
C13_Witness ==
    /\ Built
    /\ Len(tmpl.Containers[1].VolumeMounts) = 2
    /\ tmpl.Volumes[1].Kind = "Repo"
    /\ tmpl.Volumes[2].Kind = "Raw"
    /\ builtJob.podSpec.Containers[1].VolumeMounts[1].MountPath = <<"tmp", "repo-archive", "va">>
    /\ builtJob.podSpec.Containers[1].VolumeMounts[2].MountPath = <<"q">>

\* C14: buildJob hands a pre-init container to the job if and only if at least one
\* container of the pod (init, main or finalizer) declares a mount of a Repo, Token,
\* Artifact, Log or Report volume.
C14_PreInitIffManaged ==
    Built =>
        (builtJob.preInit.present <=> \E u \in Range(UserContainers) : DeclaresManaged(u.c))

\* A built pod in which only the finalizer container declares a managed volume, with
\* its pre-init container.
C14_Witness ==
    /\ Built
    /\ builtJob.preInit.present
    /\ \A u \in Range(UserContainers) : DeclaresManaged(u.c) <=> u.group = "fin"
    /\ \E u \in Range(UserContainers) : u.group = "fin"

\* The first user container, in declaration order, that declares a managed volume.
FirstManaged ==
    UserContainers[CHOOSE i \in DOMAIN UserContainers :
                      /\ DeclaresManaged(UserContainers[i].c)
                      /\ \A j \in 1..(i - 1) : ~DeclaresManaged(UserContainers[j].c)].c

\* C15: whenever a pre-init container is added, its image is the image of the first
\* user container (in declaration order over init, main and finalizer containers) that
\* declares a managed volume; it is never empty, also when only the finalizer declares
\* a managed volume.
C15_PreInitImageOfFirst ==
    (Built /\ builtJob.preInit.present) =>
        /\ builtJob.preInit.Image # ""
        /\ builtJob.preInit.Image = FirstManaged.Image

\* C16: the pre-init container's image pull policy is the pull policy of the user
\* container its image was taken from: there is one container c with a managed volume
\* such that preinit.Image = c.Image and preinit.ImagePullPolicy = c.ImagePullPolicy.
\* (Stated for the pods in which an init or main container declares a managed volume.)
C16_PullPolicyOfSameContainer ==
    (/\ Built
     /\ builtJob.preInit.present
     /\ \E u \in Range(UserContainers) : u.group # "fin" /\ DeclaresManaged(u.c)) =>
        \E u \in Range(UserContainers) :
            /\ DeclaresManaged(u.c)
            /\ builtJob.preInit.Image = u.c.Image
            /\ builtJob.preInit.ImagePullPolicy = u.c.ImagePullPolicy

\* C20: in the cluster backend, for every init and main container, the pre-commands of
\* its mount callbacks complete before its user command starts: a started container
\* has had its mount callbacks return, and no pre-command is issued on a container
\* whose user command has started.
C20_PreCommandsBeforeUserCommand ==
    /\ [](runMode = RunModeKubernetes => \A n \in started : prepared[n] # "none")
    /\ [][\A n \in started : issued'[n] = issued[n] /\ prepared'[n] = prepared[n]]_vars

\* A cluster run in which the main container's user command has started after its two
\* pre-commands were issued.
C20_Witness ==
    /\ runMode = RunModeKubernetes
    /\ "main" \in started
    /\ prepared["main"] = "ok"
    /\ \E c1, c2 \in issued["main"] : c1 # c2

\* ------------------------------------- claims on the dynamic key source
KeysScheduled == keysPc = "done" /\ keysOut.extracted

\* The key list as the specification gives it: the pieces of the output, trimmed, the
\* empty ones and the ones not matching the filter dropped, in order.
RECURSIVE ClaimedKeys(_, _)
ClaimedKeys(pieces, filter) ==
    IF pieces = <<>> THEN <<>>
    ELSE (IF TrimSpace(Head(pieces)) # <<>>
             /\ (filter = "" \/ MatchString(filter, TrimSpace(Head(pieces))))
          THEN <<TrimSpace(Head(pieces))>> ELSE <<>>)
         \o ClaimedKeys(Tail(pieces), filter)

\* C18: the dynamic key list for output out, delimiter d (default newline) and filter r
\* is the in-order sequence of the entries of split(out, d) after whitespace trimming,
\* the empty ones and the ones not matching r dropped: every key is non-empty, has no
\* leading or trailing whitespace and matches r.
C18_DynamicKeyList ==
    KeysScheduled =>
        /\ keysOut.keys = ClaimedKeys(Split(keySource.out, sourceDelim(keySource.Delim)),
                                      keySource.Filter)
        /\ \A i \in DOMAIN keysOut.keys :
              /\ keysOut.keys[i] # <<>>
              /\ ~IsSpace(Head(keysOut.keys[i]))
              /\ ~IsSpace(keysOut.keys[i][Len(keysOut.keys[i])])
              /\ keySource.Filter # "" => MatchString(keySource.Filter, keysOut.keys[i])

\* C19: with a dynamic key source, Schedule fails with an error and builds no task of
\* the main step whenever the key step reports zero main results or more than one;
\* keys are extracted only when exactly one main result is reported.
C19_ExactlyOneMainResult ==
    keysPc = "done" =>
        /\ keySource.mainResults # 1 =>
              (keysOut.err # "nil" /\ keysOut.tasks = <<>> /\ ~keysOut.extracted)
        /\ keysOut.extracted => keySource.mainResults = 1

\* A schedule that failed because the key step reported two main results, its output
\* holding keys.
C19_Witness ==
    /\ keysPc = "done"
    /\ keySource.mainResults = 2
    /\ ~keySource.buildErr /\ ~keySource.runErr
    /\ keySource.out = <<"a", "\n", "b">>
    /\ keysOut.err = "multipleMainResults"

\* ------------------------------------- claims on the strategy-key expansion
Expanded == expandPc = "done" /\ expandKey.present

\* The indexes of the original containers whose name differs from the main container's.
SideCarIdx == {i \in DOMAIN podContainers : podContainers[i].Name # expandMain.Name}

\* The name <mainName><c>-<i> of clone i.
CloneName(i) ==
    expandMain.Name \o Itoa(expandKey.ConcurrentIdx) \o <<"-">> \o Itoa(i)

\* C17: strategy-key expansion with keys k_0..k_{n-1} and concurrent index c turns the
\* container list into every original container whose name differs from the main
\* container's, once each, in original order and unchanged, followed by n clones of
\* the main container in key order, clone i named <mainName><c>-<i> and carrying
\* exactly one added environment variable Env = k_i; no container with the original
\* main name remains, and clone names are pairwise distinct.
C17_KeyExpansion ==
    Expanded =>
        LET n == Len(expandKey.Keys)
            sides == Cardinality(SideCarIdx)
        IN  /\ Len(expanded) = sides + n
            /\ \A j \in 1..sides :
                  \E i \in SideCarIdx :
                      /\ Cardinality({x \in SideCarIdx : x < i}) = j - 1
                      /\ expanded[j] = podContainers[i]
            /\ \A i \in 0..(n - 1) :
                  /\ expanded[sides + i + 1].Name = CloneName(i)
                  /\ expanded[sides + i + 1].Image = expandMain.Image
                  /\ expanded[sides + i + 1].Env =
                         expandMain.Env \o <<[Name |-> expandKey.Env, Value |-> expandKey.Keys[i + 1]]>>
            /\ \A j \in DOMAIN expanded : expanded[j].Name # expandMain.Name
            /\ \A i, j \in 0..(n - 1) :
                  i # j => expanded[sides + i + 1].Name # expanded[sides + j + 1].Name

\* An expansion with two keys and concurrent index 1 of a pod with a side car before
\* and after the main container.
C17_Witness ==
    /\ Expanded
    /\ Len(podContainers) = 3
    /\ podContainers[1].Name = <<"s">>
    /\ podContainers[2].Name = <<"m">>
    /\ podContainers[3].Name = <<"m", "0", "-", "0">>
    /\ expandMain.Name = <<"m">>
    /\ expandKey.ConcurrentIdx = 1
    /\ Len(expanded) = 4
    /\ expanded[3].Name = <<"m", "1", "-", "0">>
    /\ expanded[4].Name = <<"m", "1", "-", "1">>

\* ------------------------------------------- claims on the pre-init callback
\* The pre-init callback was installed and the backend went past it.
PreInitRan == stTask.preInit /\ stPc \in {"containers", "done"} /\ cbPc = "returned"

\* C21: within a pod every pre-init copy has completed before any container starts its
\* command: no container command runs while a pre-init CopyTo is in flight, nor after
\* the copies were left incomplete (one failed, timed out or was never started).
C21_CopiesBeforeCommands ==
    stTask.preInit /\ stStarted # {} =>
        \A i \in DOMAIN stTask.copyPaths :
            copyPc[i] \in {"sending", "done"} /\ copyErr[i] = "nil"

\* C22: when the pre-init callback returned an error, no main container's command is
\* run and the run ends with a failure that carries the callback's error, on the
\* local backend as on the cluster one.
C22_CallbackErrorStopsTask ==
    cbPc = "returned" /\ cbErr # "nil" =>
        /\ stStarted \cap NamesOf(stTmpl.Containers) = {}
        /\ stPc = "done" => stRunErr = cbErr

\* C23: the goroutine of a pre-init CopyTo is never left blocked: whenever it is at
\* its send on errChan, the callback is at the select that receives from that channel.
C23_CopyGoroutineNotBlocked ==
    \A i \in DOMAIN copyPc :
        copyPc[i] = "sending" => cbPc = "select" /\ copyIdx = i

\* Some container of the template (init, main or finalizer) mounts a volume of the
\* kind whose referenced name the resource manager does not know.
MountsUnregistered(kind) ==
    \E c \in Range(stTmpl.InitContainers) \cup Range(stTmpl.Containers)
             \cup {stTmpl.FinalizerContainer} :
       \E i \in DOMAIN c.VolumeMounts :
          LET volume == LookupVolume(stTmpl.Volumes, c.VolumeMounts[i].Name)
          IN  volume.Kind = kind /\ volume.Ref \notin stRegistered

LookupErrorOf(kind) ==
    CASE kind = "Repo" -> "RepositoryError"
      [] kind = "Token" -> "TokenError"
      [] kind = "Artifact" -> "ArtifactError"

\* Build returned, and the job of the run mode had been created.
BuildReturned == stPc # "ready" /\ stTask.err # "JobError"

BuildFailedOnLookup ==
    /\ stPc = "failed"
    /\ ~stTask.task
    /\ \E kind \in {"Repo", "Token", "Artifact"} :
          MountsUnregistered(kind) /\ stTask.err = LookupErrorOf(kind)

\* C26 as stated: a template in which some container mounts a Repo, Token or Artifact
\* volume of an unregistered name makes Build return the lookup error and no Task, in
\* every run mode.
C26_UnknownNameFailsBuild ==
    BuildReturned /\ (\E kind \in {"Repo", "Token", "Artifact"} : MountsUnregistered(kind))
        => BuildFailedOnLookup

\* C26, amended: a Repo or Token volume of an unregistered name makes Build return the
\* lookup error and no Task in every run mode, an Artifact volume of an unregistered
\* name in every run mode but dry-run; in dry-run, a template whose only unregistered
\* names are artifact names is built.
C26_UnknownNameFailsBuildButDryRunArtifact ==
    /\ BuildReturned
       /\ \/ MountsUnregistered("Repo")
          \/ MountsUnregistered("Token")
          \/ MountsUnregistered("Artifact") /\ stMode # RunModeDryRun
       => BuildFailedOnLookup
    /\ BuildReturned /\ stMode = RunModeDryRun
       /\ ~MountsUnregistered("Repo") /\ ~MountsUnregistered("Token")
       => stPc # "failed" /\ stTask.task

C26_Witness ==
    /\ stPc = "failed"
    /\ stTask.err = "ArtifactError"
    /\ stMode = RunModeLocal
    /\ \E i \in DOMAIN stTmpl.FinalizerContainer.VolumeMounts :
          LookupVolume(stTmpl.Volumes, stTmpl.FinalizerContainer.VolumeMounts[i].Name).Kind
              = "Artifact"
    /\ ~MountsUnregistered("Repo")

\* C24: in dry-run mode no real work is done and nothing fails: the pre-init callback
\* is never invoked and no CopyTo is started, every sub-task's Output is the
\* placeholder with a nil error, the artifact copy-back returns nil without calling
\* CopyFrom, and every sub-task result has status success.
C24_DryRunNeverFails ==
    stMode = RunModeDryRun =>
        /\ cbPc = "idle"
        /\ \A i \in DOMAIN copyPc : copyPc[i] = "none"
        /\ \A n \in DOMAIN stResults :
              /\ stResults[n].Out = "( dry running .... )"
              /\ stResults[n].Err = "nil"
              /\ stResults[n].ArtifactErr = "nil"
              /\ ~stResults[n].copyFrom
              /\ stResults[n].Status = "success"

C24_Witness ==
    /\ stMode = RunModeDryRun
    /\ stPc = "done"
    /\ needsToPreInit(stCtx)
    /\ MountsUnregistered("Artifact")
    /\ "main" \in DOMAIN stResults

\* ------------------------------------------------ claims on artifact copy-back
\* The sub-tasks of the clones of the main container that have finished.
BackClones == {n \in DOMAIN backResults : backResults[n].isMain}

\* C25: for a main step expanded over N keys whose main container owns one artifact,
\* every expanded main sub-task copies the artifact once, looked up under the name of
\* the original main container, to the local path of its own container name, so that
\* the destinations of the N copies are pairwise distinct.
C25_CopyBackPerClone ==
    /\ backKey.present
    /\ backMode # RunModeDryRun
    /\ Len(SelectSeq(backArtifacts, LAMBDA x : x.Container.Name = backMain.Name)) = 1
    =>
    LET owned == SelectSeq(backArtifacts, LAMBDA x : x.Container.Name = backMain.Name)[1]
    IN  /\ \A n \in BackClones :
              /\ Len(backResults[n].copies) = 1
              /\ backResults[n].copies[1].src = owned.Container.Path
              /\ backResults[n].copies[1].dst =
                     IF backAgent
                     THEN Dir(ArtifactPathByNameAndContainerName(owned, n))
                     ELSE ArtifactPathByNameAndContainerName(owned, n)
        /\ \A n1, n2 \in BackClones :
              n1 # n2 => backResults[n1].copies[1].dst # backResults[n2].copies[1].dst
        /\ DOMAIN backResults = Range([i \in DOMAIN backSubTasks |-> backSubTasks[i].Name])
              => Cardinality({backResults[n].copies[1].dst : n \in BackClones})
                     = Len(backKey.Keys)

C25_Witness ==
    /\ backKey.present
    /\ Len(backKey.Keys) = 3
    /\ backMode # RunModeDryRun
    /\ Len(SelectSeq(backArtifacts, LAMBDA x : x.Container.Name = backMain.Name)) = 1
    /\ Cardinality(BackClones) = 3
    /\ \A n \in BackClones : backResults[n].err = "nil"

\* ---------------------------------------------------- claims on MaskedMessage
\* The positions at which the token occurs in the text.
Occurrences(text, token) ==
    {i \in 1..Len(text) : HasPrefix(SubSeq(text, i, Len(text)), token)}

\* C27: the text String returns has the length of the message, contains no occurrence
\* of any registered token, and has '*' at every position of every occurrence of a
\* registered token in the message, also when tokens overlap or one contains another.
C27_EveryTokenMasked ==
    mmPc = "read" =>
        /\ Len(mmOut) = Len(mmMsg)
        /\ \A k \in DOMAIN mmMasks :
              /\ Occurrences(mmOut, mmMasks[k]) = {}
              /\ \A i \in Occurrences(mmMsg, mmMasks[k]) :
                    \A j \in i..(i + Len(mmMasks[k]) - 1) : mmOut[j] = "*"

\* ------------------------------------------ claims on errors and on the retest
\* C28: an error short-circuits the outstanding work: once a pod's run has returned an
\* error no pod starts a further group of tests, and within a pod no later group is
\* started after a group has returned an error.
C28_ErrorShortCircuits ==
    [][\A p \in Pods :
          (egErr # ErrNil \/ pod[p].errs > 0) => pod'[p].groupIdx = pod[p].groupIdx]_vars

\* The retest's call of runTests has been made.
RetestStarted == pod[RetestPod].pc # "unused"

\* The tests whose log of the first pass is a failure.
FailedFirstPass == {testLogs[i].Name : i \in {j \in DOMAIN testLogs : IsFailure(testLogs[j])}}

\* The logs the retest's pod has collected so far.
RetestLogs ==
    IF pod[RetestPod].pc = "waiting" THEN pod[RetestPod].logs \o pod[RetestPod].gLogs
    ELSE pod[RetestPod].logs

\* C29: the retest runs exactly the tests that failed in the first pass, each of them
\* once, in groups of one test so that no two retested tests run at the same time, and
\* no test gets more than one retest log.
C29_RetestFailedOnceSequentially ==
    RetestStarted =>
        /\ job.retest
        /\ Range(pod[RetestPod].tests) = FailedFirstPass
        /\ Len(pod[RetestPod].tests) = Cardinality(FailedFirstPass)
        /\ \A g \in DOMAIN pod[RetestPod].groups : Len(pod[RetestPod].groups[g]) = 1
        /\ Cardinality({t \in Tests : test[t].pc \in {"spawned", "executed"}}) <= 1
        /\ \A i, j \in DOMAIN RetestLogs :
              /\ RetestLogs[i].Pass = 2
              /\ RetestLogs[i].Name \in FailedFirstPass
              /\ i # j => RetestLogs[i].Name # RetestLogs[j].Name

C29_Witness ==
    /\ runnerPc = "done"
    /\ RetestStarted
    /\ Cardinality(FailedFirstPass) = 1
    /\ job.nTests = 2
    /\ job.maxConcurrent = 2
    /\ Len(pod[RetestPod].ret.logs) = 1
    /\ IsFailure(pod[RetestPod].ret.logs[1])
    /\ runOut.err = ErrFailedTestJob

\* ------------------------------------------------ claims on OnFinishSubTask
\* The sub-tasks whose callback has incremented the counter.
FinCounted == {t \in FinTasks : finPc[t] \in {"stored", "logged", "finished"}}

\* C30: the on-finish callback runs exactly once per finished sub-task, and in every
\* interleaving, in the single-pod and in the multi-pod branch, finishedKeyNum is the
\* number of callbacks that have made their increment: it never exceeds the number of
\* sub-tasks that finished running, and is their number once all have finished.
C30_NoLostFinish ==
    /\ \A t \in FinTasks :
          /\ finCalls[t] <= 1
          /\ finPc[t] = "finished" => finCalls[t] = 1
    /\ finishedKeyNum = Cardinality(FinCounted)
    /\ finishedKeyNum <= Cardinality({t \in FinTasks : finPc[t] # "running"})
    /\ (\A t \in FinTasks : finPc[t] = "finished") => finishedKeyNum = finTotal

C30_Witness ==
    /\ finTotal = 3
    /\ finBranch = "multi"
    /\ \A t \in FinTasks : finPc[t] = "finished"
    /\ \E t \in FinTasks : finLogged[t] = 3
    /\ \E t1, t2 \in FinTasks : t1 # t2 /\ finLogged[t1] = finLogged[t2]

\* ------------------------------------------ claims on invalid strategies
\* C31: Schedule with a strategy of N >= 1 keys whose MaxContainersPerPod is <= 0
\* returns an error: it does not panic on the division, returns no empty task group
\* and no task.
C31_InvalidCapIsAnError ==
    /\ schedPc = "done"
    /\ strategy.present
    /\ Len(strategy.keys) >= 1
    /\ strategy.maxContainersPerPod <= 0
    => /\ schedOut.err \notin {"nil", "panic"}
       /\ schedOut.tasks = <<>>

\* ------------------------------------------ claims on the pre-init copy plan
\* The containers of the three groups of the build context of the staged template.
StageTaskContainers ==
    {stCtx.initContainers[n] : n \in DOMAIN stCtx.initContainers}
        \cup {stCtx.containers[n] : n \in DOMAIN stCtx.containers}
        \cup {stCtx.finalizerContainers[n] : n \in DOMAIN stCtx.finalizerContainers}

\* The Repo, Token and Artifact volumes some container of the pod mounts.
StageMountedNamedVolumes ==
    {v \in {stTmpl.Volumes[k] : k \in DOMAIN stTmpl.Volumes} :
        /\ v.Kind \in {"Repo", "Token", "Artifact"}
        /\ \E tc \in StageTaskContainers : \E i \in DOMAIN tc.container.VolumeMounts :
               tc.container.VolumeMounts[i].Name = v.Name}

\* A copy of the plan whose destination lies inside the path.
Fills(copyPaths, path) ==
    \E i \in DOMAIN copyPaths :
        /\ Len(copyPaths[i].dst) >= Len(path)
        /\ SubSeq(copyPaths[i].dst, 1, Len(path)) = path

\* C32: once a task with a pre-init callback is built, every Repo, Token or Artifact
\* volume that a container of the pod mounts has a copy of the plan whose destination
\* lies inside the volume's staging path, also when two volumes reference one name.
C32_EveryStagingPathFilled ==
    stTask.task /\ stTask.preInit
    => \A v \in StageMountedNamedVolumes : Fills(stTask.copyPaths, StagingPath(v))

\* ------------------------------------------ claims on the order of SubTask.Run
\* A step of sub-task t from one position of Run to another.
RunStep(t, from, to) == subPc[t] = from /\ subPc'[t] = to

\* C33: in SubTask.Run the copy-back is invoked exactly once per run: it starts only
\* after Output has returned, Run reaches its deferred function (Stop or termination
\* log, LogGroup, OnFinish) only after the copy-back, the only step after Output is the
\* copy-back, whether the command failed or not, and the only step after the copy-back
\* is the deferred function.
C33_CopyBackOnceBetweenOutputAndStop ==
    [][\A t \in SubTasks :
          subPc'[t] # subPc[t] =>
              /\ subPc'[t] = "copied" => subPc[t] = "outputDone"
              /\ subPc'[t] = "finished" => subPc[t] = "copied"
              /\ subPc[t] = "outputDone" => subPc'[t] = "copied"
              /\ subPc[t] = "copied" => subPc'[t] = "finished"
              /\ subPc'[t] = "outputDone" => subPc[t] = "running"]_vars

\* A sub-task whose command failed has gone through the copy-back and the deferred
\* function, and another whose command succeeded as well.
C33_Witness ==
    /\ \E t \in SubTasks : subPc[t] = "finished" /\ subResult[t].Err
    /\ \E t \in SubTasks : subPc[t] \in {"finished", "added"} /\ ~subResult[t].Err

\* ------------------------------------------ claims on the pre-init callback
\* The place of a copy in the plan: repositories, tokens, artifacts, log, report.
CopyRank(copy) ==
    CASE copy.src[2] = "repo" -> 1 [] copy.src[2] = "token" -> 2
      [] copy.src[2] = "artifact" -> 3 [] copy.src[2] = "log" -> 4
      [] copy.src[2] = "report" -> 5

\* The name a copy of a repository, token or artifact is for.
CopyName(copy) == IF CopyRank(copy) <= 3 THEN copy.src[3] ELSE ""

NameRank(name) == IF name = "" THEN 0 ELSE CHOOSE i \in DOMAIN NameOrder : NameOrder[i] = name

\* C34: the plan is ordered by kind and, within a kind, by name; the callback starts a
\* copy only when every earlier copy has returned nil, returns the error of the first
\* copy that fails or times out with no later copy started, and returns nil only when
\* every copy returned nil.
C34_CopiesInOrderFirstErrorReturned ==
    /\ \A i, j \in DOMAIN stTask.copyPaths :
          i < j => \/ CopyRank(stTask.copyPaths[i]) < CopyRank(stTask.copyPaths[j])
                   \/ /\ CopyRank(stTask.copyPaths[i]) = CopyRank(stTask.copyPaths[j])
                      /\ NameRank(CopyName(stTask.copyPaths[i]))
                             < NameRank(CopyName(stTask.copyPaths[j]))
    /\ \A i \in DOMAIN copyPc :
          copyPc[i] # "none" =>
              \A j \in 1..(i - 1) : copyPc[j] = "done" /\ copyErr[j] = "nil"
    /\ cbPc = "returned" /\ cbErr = "nil" =>
          \A i \in DOMAIN copyPc : copyPc[i] = "done" /\ copyErr[i] = "nil"
    /\ cbPc = "returned" /\ cbErr # "nil" =>
          /\ copyIdx \in DOMAIN copyPc
          /\ \/ cbErr = "DeadlineExceeded" /\ copyPc[copyIdx] # "done"
             \/ cbErr = copyErr[copyIdx] /\ copyPc[copyIdx] = "done"
          /\ \A j \in DOMAIN copyPc : j > copyIdx => copyPc[j] = "none"

\* The first of two copies failed and the callback returned its error.
C34_Witness ==
    /\ Len(stTask.copyPaths) = 2
    /\ cbPc = "returned"
    /\ cbErr = "CopyError"
    /\ copyIdx = 1
    /\ copyPc[2] = "none"

\* C35: once the T sub-tasks of a schedule have finished, the progress lines have
\* reported the values 1..T, each exactly once, in the single-pod branch and in the
\* multi-pod branch alike.
C35_ProgressValuesOnce ==
    (\A t \in FinTasks : finPc[t] \in {"logged", "finished"})
    => /\ {finLogged[t] : t \in FinTasks} = 1..finTotal
       /\ \A t1, t2 \in FinTasks : t1 # t2 => finLogged[t1] # finLogged[t2]

\* ------------------------------------------ claims on the volumes of the pod
\* C36: in a built pod every volume the pre-init container mounts, and every managed
\* volume an init, main or finalizer container mounts, is among the Volumes of the pod
\* spec, also when only the finalizer container mounts it.
C36_MountedVolumesDeclared ==
    Built =>
        /\ builtJob.preInit.present =>
               DOMAIN builtJob.preInit.VolumeMounts \subseteq DOMAIN builtJob.podSpec.Volumes
        /\ \A u \in Range(UserContainers) : \A j \in DOMAIN u.c.VolumeMounts :
               IsManaged(u.c.VolumeMounts[j]) =>
                   u.c.VolumeMounts[j].Name \in DOMAIN builtJob.podSpec.Volumes

\* ------------------------------------------ claims on repeated builds
\* The mount paths the user declared in the containers of the template.
DeclaredPaths ==
    LET cs == rbOrig.InitContainers \o rbOrig.Containers \o <<rbOrig.FinalizerContainer>>
    IN  UNION {{cs[i].VolumeMounts[j].MountPath : j \in DOMAIN cs[i].VolumeMounts} :
                  i \in DOMAIN cs}

\* The original mount paths a build recorded for the containers of a group.
RecordedOf(g) ==
    UNION {Range(g[n].repo) \cup Range(g[n].token) \cup Range(g[n].artifact)
              \cup Range(g[n].log) \cup Range(g[n].report) : n \in DOMAIN g}

RecordedPathsOf(build) ==
    RecordedOf(build.initContainers) \cup RecordedOf(build.containers)
        \cup RecordedOf(build.finalizerContainers)

C38_FailedMountStopsCommand ==
    runMode = RunModeKubernetes =>
        \A n \in ContainerNames : prepared[n] = "failed" => n \notin started

\* ------------------------------------------ claims on a failed key step
\* C39: when the single main sub-task of the dynamic key step finished with status
\* failure, Schedule returns an error, builds no task, and derives no key from the
\* step's output.
C39_FailedKeyStepIsAnError ==
    /\ keysPc = "done"
    /\ ~keySource.buildErr /\ ~keySource.runErr
    /\ keySource.mainResults = 1
    /\ keySource.Status = TaskResultFailure
    => /\ keysOut.err # "nil"
       /\ keysOut.tasks = <<>>
       /\ ~keysOut.extracted

\* ------------------------------------------ claims on the list retest returns
\* retest has returned its list.
RetestReturned == pod[RetestPod].pc = "returned" /\ runnerPc \in {"return", "done"}

\* The retest logs of a test.
RetestLogsOf(name) ==
    {pod[RetestPod].ret.logs[j] :
        j \in {k \in DOMAIN pod[RetestPod].ret.logs : pod[RetestPod].ret.logs[k].Name = name}}

\* C40: the list retest returns has the length and the test-name order of the list of
\* the first pass; an entry whose test has a retest log is that retest log, and every
\* other entry is the log of the first pass.
C40_RetestChangesOnlyRetested ==
    RetestReturned =>
        /\ Len(runRet.logs) = Len(testLogs)
        /\ \A i \in DOMAIN testLogs :
              /\ runRet.logs[i].Name = testLogs[i].Name
              /\ RetestLogsOf(testLogs[i].Name) # {} =>
                     runRet.logs[i] \in RetestLogsOf(testLogs[i].Name)
              /\ RetestLogsOf(testLogs[i].Name) = {} => runRet.logs[i] = testLogs[i]

\* A test that passed keeps its log of the first pass next to a test whose failure
\* was replaced by the success of its retest.
C40_Witness ==
    /\ RetestReturned
    /\ Len(testLogs) = 2
    /\ \E i, j \in DOMAIN testLogs :
          /\ ~IsFailure(testLogs[i]) /\ runRet.logs[i] = testLogs[i]
          /\ IsFailure(testLogs[j]) /\ ~IsFailure(runRet.logs[j]) /\ runRet.logs[j].Pass = 2

====
